---- MODULE Spec2Model ----
(***************************************************************************)
(* IPRO analytics core: the Metrics Engine (analytics/metrics.py), the     *)
(* R.I.C.O. Insights Engine (analytics/insights.py) and the statistics     *)
(* primitives (analytics/estatistica.py).                                  *)
(*                                                                         *)
(* Dates are whole days counted from the epoch 2024-01-01 (the base date   *)
(* of tests/test_metrics_engine.py).  Floats are exact fractions           *)
(* [n |-> numerator, d |-> denominator] in lowest terms.                   *)
(***************************************************************************)
EXTENDS Integers, Sequences, FiniteSets, TLC

\* txs:      the transactions of the dataset under analysis
\* now:      the wall clock, datetime.now(), in days since the epoch
\* engine:   the MetricsCalculator or InsightsGenerator the caller holds
\* last:     the most recent call into the engine and what it returned
\* stat_in:  the sequence handed to the statistics primitives
\* stat_out: the most recent call of a statistics primitive and its result
\* db:       the collections of the database the routers read and write
\* reqs:     the requests in flight: the handler, its position and its locals
VARIABLES txs, now, engine, last, stat_in, stat_out, db, reqs

vars == <<txs, now, engine, last, stat_in, stat_out, db, reqs>>

(***************************************************************************)
(* Bounds of the model.                                                    *)
(***************************************************************************)
MaxTx == 3
MaxDay == 2
MaxNow == 2
DayStep == 30
MaxLen == 4
MaxVal == 3
MaxStored == 3

None == "None"

ClientOrder == <<"c1", "c2">>
Clients == {ClientOrder[i] : i \in 1..Len(ClientOrder)}
SkuOrder == <<"A", "B">>
Skus == {SkuOrder[i] : i \in 1..Len(SkuOrder)}
Orders == {"o1", "o2"}
Subtotals == {1, 2}
SegmentOrder == <<"s1", "s2">>
Segments == {SegmentOrder[i] : i \in 1..Len(SegmentOrder)}
Dates == {k * DayStep : k \in 0..MaxDay}

(***************************************************************************)
(* Arithmetic helpers.                                                     *)
(***************************************************************************)
Abs(x) == IF x < 0 THEN -x ELSE x

RECURSIVE Gcd(_, _)
Gcd(a, b) == IF b = 0 THEN a ELSE Gcd(b, a % b)

\* the float n/d, d > 0, in lowest terms
Frac(n, d) ==
    LET g == Gcd(Abs(n), d)
    IN  [n |-> n \div g, d |-> d \div g]

Zero == Frac(0, 1)

Range(s) == {s[i] : i \in 1..Len(s)}

SeqsUpTo(S, n) == UNION {[1..k -> S] : k \in 0..n}

Min(S) == CHOOSE x \in S : \A y \in S : x <= y
Max(S) == CHOOSE x \in S : \A y \in S : y <= x

RECURSIVE SumSeq(_)
SumSeq(s) == IF s = <<>> THEN 0 ELSE Head(s) + SumSeq(Tail(s))

\* sorted(...) of a set of integers
RECURSIVE SortedSeq(_)
SortedSeq(S) ==
    IF S = {} THEN <<>>
    ELSE LET m == Min(S) IN <<m>> \o SortedSeq(S \ {m})

\* sorted(...) of a list of integers (insertion into the sorted tail)
RECURSIVE SortList(_)
SortList(s) ==
    IF s = <<>> THEN <<>>
    ELSE LET rest == SortList(Tail(s))
             x == Head(s)
             lo == SelectSeq(rest, LAMBDA y : y <= x)
             hi == SelectSeq(rest, LAMBDA y : y > x)
         IN  lo \o <<x>> \o hi

\* np.median of a non-empty list of integers
NpMedian(s) ==
    LET srt == SortList(s)
        n == Len(srt)
    IN  IF n % 2 = 1 THEN Frac(srt[(n + 1) \div 2], 1)
        ELSE Frac(srt[n \div 2] + srt[n \div 2 + 1], 2)

\* pandas unique(): the values of a list in order of first appearance
RECURSIVE Unique(_)
Unique(s) ==
    IF s = <<>> THEN <<>>
    ELSE LET init == Unique(SubSeq(s, 1, Len(s) - 1))
             x == s[Len(s)]
         IN  IF x \in Range(init) THEN init ELSE Append(init, x)

Column(df, col) == [i \in 1..Len(df) |-> df[i][col]]

FracLeq(a, b) == a.n * b.d <= b.n * a.d
FracLt(a, b) == a.n * b.d < b.n * a.d
FracAdd(a, b) == Frac(a.n * b.d + b.n * a.d, a.d * b.d)

\* rows of a DataFrame that satisfy a predicate: df[mask]
Rows(df, P(_)) == SelectSeq(df, P)

\* Series.nunique()
NUnique(s) == Cardinality(Range(s))

\* the members of S in the order of the list ord (sorted keys of a groupby)
SortedKeys(S, ord) == SelectSeq(ord, LAMBDA k : k \in S)

\* differences of consecutive elements of a sorted list of dates, in days
Intervals(dates) == [i \in 1..(Len(dates) - 1) |-> dates[i + 1] - dates[i]]

(***************************************************************************)
(* Metrics Engine: analytics/metrics.py                                    *)
(***************************************************************************)

\* _calculate_customer_turnover over the dates of all rows instead of the
\* distinct dates
_calculate_customer_turnover_all_rows(client_data) ==
    IF Len(client_data) < 2 THEN Zero
    ELSE LET dates == SortList(Column(client_data, "date"))
             intervals == Intervals(dates)
         IN  IF intervals # <<>> THEN NpMedian(intervals) ELSE Zero

\* MetricsCalculator._calculate_customer_turnover
_calculate_customer_turnover(client_data) ==
    IF Len(client_data) < 2 THEN Zero
    ELSE LET dates == SortedSeq(Range(Column(client_data, "date")))
             intervals == Intervals(dates)
         IN  IF intervals # <<>> THEN NpMedian(intervals) ELSE Zero

\* MetricsCalculator._classify_customer_tier; the tier labels are the
\* source's labels without their emoji marker
_classify_customer_tier(recency, frequency, monetary) ==
    IF recency <= 30 /\ frequency >= 5 /\ monetary >= 1000 THEN "Top"
    ELSE IF recency <= 60 /\ frequency >= 3 /\ monetary >= 500 THEN "Expansao"
    ELSE IF recency <= 90 /\ frequency >= 2 THEN "Potencial"
    ELSE "Baixa relevancia"

\* Series.dropna().mode().iloc[0] of the segment column, None when the
\* column holds no value: the most frequent value, the first in sorted order
\* among equally frequent ones
SegmentMode(client_data) ==
    LET col == Column(client_data, "segment")
        count(g) == Len(SelectSeq(col, LAMBDA x : x = g))
        present == SelectSeq(SegmentOrder, LAMBDA g : count(g) > 0)
        best == SelectSeq(present, LAMBDA g : \A h \in Range(present) : count(h) <= count(g))
    IN  IF present = <<>> THEN None ELSE Head(best)

\* services/models.py CustomerAnalytics as calculate_customer_rfm builds it:
\* last_order, rfm_score and segment_weight keep the defaults of the class
CustomerAnalytics(client, recency, frequency, monetary, avg_ticket, gm_cliente, tier, segment) ==
    [client |-> client, recency |-> recency, frequency |-> frequency,
     monetary |-> monetary, avg_ticket |-> avg_ticket, gm_cliente |-> gm_cliente,
     tier |-> tier, segment |-> segment,
     last_order |-> None, rfm_score |-> Zero, segment_weight |-> Frac(1, 1)]

\* Recency measured from the wall clock at the call instead of the
\* calculator's reference date
Recency_at_call(ref, last_purchase) == now - last_purchase

\* calculate_customer_rfm, "Recency": the days from the last purchase to the
\* calculator's reference date
Recency(ref, last_purchase) == ref - last_purchase

\* Monetary as the sum of the distinct subtotals of the client
Monetary_distinct(client_data) == SumSeq(SortedSeq(Range(Column(client_data, "subtotal"))))

\* calculate_customer_rfm, "Monetary": the sum of the client's subtotals
Monetary(client_data) == SumSeq(Column(client_data, "subtotal"))

\* the body of the loop of calculate_customer_rfm: the CustomerAnalytics of
\* one client
CustomerMetrics(df, client, ref) ==
    LET client_data == Rows(df, LAMBDA t : t.client = client)
        last_purchase == Max(Range(Column(client_data, "date")))
        recency == Recency(ref, last_purchase)
        frequency == NUnique(Column(client_data, "order_id"))
        monetary == Monetary(client_data)
        avg_ticket == IF frequency > 0 THEN Frac(monetary, frequency) ELSE Zero
        gm_cliente == _calculate_customer_turnover(client_data)
        tier == _classify_customer_tier(recency, frequency, monetary)
    IN  CustomerAnalytics(client, recency, frequency, monetary, avg_ticket,
                          gm_cliente, tier, SegmentMode(client_data))

\* MetricsCalculator.calculate_customer_rfm: an empty list has no 'date'
\* column, the KeyError is caught and [] returned
calculate_customer_rfm(transactions, ref) ==
    IF transactions = <<>> THEN <<>>
    ELSE LET clients == Unique(Column(transactions, "client"))
         IN  [i \in 1..Len(clients) |-> CustomerMetrics(transactions, clients[i], ref)]

\* services/models.py ProductAnalytics: the fields without a default
ProductAnalyticsRequired == {"dataset_id", "sku", "product", "orders", "qty", "revenue"}

\* the keyword arguments calculate_product_analytics passes to ProductAnalytics
ProductAnalyticsKwargs ==
    {"dataset_id", "sku", "gm_sku", "gm_sku_base", "gm_cluster", "cv_giro", "adocao"}

\* MetricsCalculator.calculate_product_analytics: ProductAnalytics(...) is
\* given no value for some of its required fields, the validation error is
\* raised inside the try block and the method returns []
calculate_product_analytics(transactions) ==
    IF transactions = <<>> THEN <<>>
    ELSE IF ~(ProductAnalyticsRequired \subseteq ProductAnalyticsKwargs) THEN <<>>
    ELSE LET skus == Unique(Column(transactions, "sku"))
         IN  [i \in 1..Len(skus) |-> [sku |-> skus[i], hero_mix |-> None]]

\* numpy's std and cv are square roots: the value sqrt(v) is kept as its
\* square v
Sqrt(v) == [sqrt_of |-> v]

\* the population variance (np.std squared) of a non-empty list of integers
NpVar(s) ==
    LET n == Len(s)
        sm == SumSeq(s)
        sq == SumSeq([i \in 1..n |-> s[i] * s[i]])
    IN  Frac(n * sq - sm * sm, n * n)

\* the mean of a non-empty list of integers
NpMean(s) == Frac(SumSeq(s), Len(s))

\* the intervals between the sorted distinct dates of every client that has
\* at least two rows, client after client
RECURSIVE ClientIntervals(_, _)
ClientIntervals(df, clients) ==
    IF clients = <<>> THEN <<>>
    ELSE LET client_data == Rows(df, LAMBDA t : t.client = Head(clients))
             own == IF Len(client_data) >= 2
                    THEN Intervals(SortedSeq(Range(Column(client_data, "date"))))
                    ELSE <<>>
         IN  own \o ClientIntervals(df, Tail(clients))

\* MetricsCalculator._calculate_global_turnover_metrics
_calculate_global_turnover_metrics(df) ==
    LET all_intervals == ClientIntervals(df, Unique(Column(df, "client")))
    IN  IF all_intervals = <<>>
        THEN [global_turnover |-> Zero, turnover_std |-> Sqrt(Zero), turnover_cv |-> Sqrt(Zero)]
        ELSE LET global_turnover == NpMedian(all_intervals)
                 var == NpVar(all_intervals)
             IN  [global_turnover |-> global_turnover,
                  turnover_std |-> Sqrt(var),
                  turnover_cv |-> IF global_turnover.n > 0
                                  THEN Sqrt(Frac(var.n * global_turnover.d * global_turnover.d,
                                                 var.d * global_turnover.n * global_turnover.n))
                                  ELSE Sqrt(Zero)]

\* the dictionary a merged with the dictionary b: {**a, **b}
Merge(a, b) ==
    [k \in (DOMAIN a) \cup (DOMAIN b) |-> IF k \in DOMAIN b THEN b[k] ELSE a[k]]

\* the empty dictionary {}
EmptyDict == [k \in {} |-> Zero]

\* MetricsCalculator.calculate_general_kpis: on an empty list the KeyError of
\* the missing 'date' column is caught and {} returned; the transactions
\* carry no 'cost' column, so margin_data is empty
calculate_general_kpis(transactions, ref) ==
    IF transactions = <<>> THEN EmptyDict
    ELSE LET df == transactions
             total_revenue == SumSeq(Column(df, "subtotal"))
             total_orders == NUnique(Column(df, "order_id"))
             dates == Range(Column(df, "date"))
             clients == Unique(Column(df, "client"))
             last_purchase(c) == Max({df[i].date : i \in {j \in 1..Len(df) : df[j].client = c}})
             recency == [i \in 1..Len(clients) |-> ref - last_purchase(clients[i])]
             frequency == [i \in 1..Len(clients) |->
                              Len(Rows(df, LAMBDA t : t.client = clients[i]))]
             kpis == [total_revenue |-> Frac(total_revenue, 1),
                      total_customers |-> Frac(Len(clients), 1),
                      total_products |-> Frac(NUnique(Column(df, "sku")), 1),
                      total_orders |-> Frac(total_orders, 1),
                      avg_ticket |-> IF total_orders > 0
                                     THEN Frac(total_revenue, total_orders) ELSE Zero,
                      avg_recency |-> Frac(SumSeq(recency), Len(clients)),
                      avg_frequency |-> NpMean(frequency),
                      period_start |-> Frac(Min(dates), 1),
                      period_end |-> Frac(Max(dates), 1),
                      period_days |-> Frac(Max(dates) - Min(dates), 1)]
         IN  Merge(kpis, _calculate_global_turnover_metrics(df))

(***************************************************************************)
(* Insights Engine: analytics/insights.py                                  *)
(***************************************************************************)

\* InsightsGenerator.__init__: RUPTURA_JANELA_ALERTA, default "0.75"
ruptura_threshold == Frac(3, 4)

\* InsightsGenerator.__init__: DELAY_LOGISTICO_PADRAO, default "20"
delay_logistico == 20

\* first day of every month of 2024 and of January 2025, in days since the
\* epoch
MonthStarts == <<0, 31, 60, 91, 121, 152, 182, 213, 244, 274, 305, 335, 366>>

\* date.dt.to_period('M'): the calendar month of a day, counted from the
\* epoch's month
MonthOf(d) == Cardinality({i \in 1..Len(MonthStarts) : MonthStarts[i] <= d}) - 1

RECURSIVE Concat(_)
Concat(ss) == IF ss = <<>> THEN <<>> ELSE Head(ss) \o Concat(Tail(ss))

\* services/models.py Alert as the rules build it; diagnosis holds the
\* numbers the diagnosis text is formatted from, the reliability markers are
\* named by their colour
Alert(client, sku, type, diagnosis, reliability, suggested_deadline) ==
    [client |-> client, sku |-> sku, type |-> type, diagnosis |-> diagnosis,
     reliability |-> reliability, suggested_deadline |-> suggested_deadline]

\* a transaction whose subtotal is a text that is no number; the subtotal
\* field of such a row holds no value that is read
NonNumeric(t) == "subtotal_is_text" \in DOMAIN t /\ t.subtotal_is_text

HasNonNumeric(rows) == \E i \in 1..Len(rows) : NonNumeric(rows[i])

\* InsightsGenerator._calculate_reliability
_calculate_reliability(group, intervals, ref) ==
    LET num_orders == NUnique(Column(group, "order_id"))
        n == Len(intervals)
        sm == SumSeq(intervals)
        \* n*sum(x^2) - sum(x)^2: cv^2 = dev / sm^2 when the mean is positive
        dev == n * SumSeq([i \in 1..n |-> intervals[i] * intervals[i]]) - sm * sm
        cv_lt_03 == IF sm > 0 THEN 100 * dev < 9 * sm * sm ELSE FALSE
        cv_le_05 == IF sm > 0 THEN 4 * dev <= sm * sm ELSE FALSE
        days_since_last == ref - Max(Range(Column(group, "date")))
    IN  IF num_orders >= 4 /\ cv_lt_03 /\ days_since_last < 45 THEN "blue"
        ELSE IF num_orders >= 2 /\ cv_le_05 THEN "yellow"
        ELSE "red"

\* RupturaGroup without the two guards on the history of the group: a group
\* with a single date has turnover 0
RupturaGroup_no_history_guard(df, client, sku, ref) ==
    LET group == Rows(df, LAMBDA t : t.client = client /\ t.sku = sku)
        dates == SortedSeq(Range(Column(group, "date")))
        intervals == Intervals(dates)
        giro_medio == IF intervals = <<>> THEN Zero ELSE NpMedian(intervals)
        days_since_last == ref - dates[Len(dates)]
        due == days_since_last * giro_medio.d * ruptura_threshold.d
                 >= giro_medio.n * ruptura_threshold.n
                    + delay_logistico * giro_medio.d * ruptura_threshold.d
    IN  IF due
        THEN <<Alert(client, sku, "ruptura", <<days_since_last, giro_medio>>,
                     IF intervals = <<>> THEN "red"
                     ELSE _calculate_reliability(group, intervals, ref), "3 dias")>>
        ELSE <<>>

\* the body of the loop of _generate_ruptura_alerts for one (client, sku)
\* group: the alerts it appends
RupturaGroup(df, client, sku, ref) ==
    LET group == Rows(df, LAMBDA t : t.client = client /\ t.sku = sku)
        dates == SortedSeq(Range(Column(group, "date")))
        intervals == Intervals(dates)
    IN  IF Len(group) < 2 THEN <<>>
        ELSE IF intervals = <<>> THEN <<>>
        ELSE LET giro_medio == NpMedian(intervals)
                 last_purchase == dates[Len(dates)]
                 days_since_last == ref - last_purchase
                 \* days_since_last >= giro_medio * ruptura_threshold + delay_logistico
                 due == days_since_last * giro_medio.d * ruptura_threshold.d
                          >= giro_medio.n * ruptura_threshold.n
                             + delay_logistico * giro_medio.d * ruptura_threshold.d
             IN  IF due
                 THEN <<Alert(client, sku, "ruptura", <<days_since_last, giro_medio>>,
                              _calculate_reliability(group, intervals, ref), "3 dias")>>
                 ELSE <<>>

\* the keys of df.groupby(['client', 'sku']) in sorted order
ClientSkuKeys(df) ==
    LET ns == Len(SkuOrder)
        all == [i \in 1..(Len(ClientOrder) * ns) |->
                   <<ClientOrder[((i - 1) \div ns) + 1], SkuOrder[((i - 1) % ns) + 1]>>]
    IN  SelectSeq(all, LAMBDA k : \E i \in 1..Len(df) : df[i].client = k[1] /\ df[i].sku = k[2])

\* InsightsGenerator._generate_ruptura_alerts
_generate_ruptura_alerts(df, ref) ==
    LET keys == ClientSkuKeys(df)
    IN  Concat([i \in 1..Len(keys) |-> RupturaGroup(df, keys[i][1], keys[i][2], ref)])

\* the body of the loop of _generate_inatividade_alerts for one client
InatividadeGroup(df, client, ref) ==
    LET group == Rows(df, LAMBDA t : t.client = client)
        days_inactive == ref - Max(Range(Column(group, "date")))
        total_orders == NUnique(Column(group, "order_id"))
        total_spent == SumSeq(Column(group, "subtotal"))
        diagnosis == <<days_inactive, total_orders, Frac(total_spent, total_orders)>>
    IN  IF days_inactive >= 90
        THEN <<Alert(client, None, "inatividade", diagnosis, "red", "1 semana")>>
        ELSE IF days_inactive >= 60
        THEN <<Alert(client, None, "inatividade", diagnosis, "yellow", "3 dias")>>
        ELSE IF days_inactive >= 30
        THEN <<Alert(client, None, "inatividade", diagnosis, "blue", "2 dias")>>
        ELSE <<>>

\* the loop body of _generate_inatividade_alerts raises TypeError for a
\* client that is not active when total_spent / total_orders is computed
\* from a subtotal that is no number
InatividadeRaises(df, client, ref) ==
    LET group == Rows(df, LAMBDA t : t.client = client)
        days_inactive == ref - Max(Range(Column(group, "date")))
    IN  days_inactive >= 30 /\ HasNonNumeric(group)

\* the try block of _generate_inatividade_alerts has raised
InatividadeFails(df, ref) ==
    \E client \in Range(Column(df, "client")) : InatividadeRaises(df, client, ref)

\* InsightsGenerator._generate_inatividade_alerts: an exception of the loop
\* is caught outside the loop and [] returned
_generate_inatividade_alerts(df, ref) ==
    LET keys == SortedKeys(Range(Column(df, "client")), ClientOrder)
    IN  IF InatividadeFails(df, ref) THEN <<>>
        ELSE Concat([i \in 1..Len(keys) |-> InatividadeGroup(df, keys[i], ref)])

RECURSIVE FracSum(_)
FracSum(s) == IF s = <<>> THEN Zero ELSE FracAdd(Head(s), FracSum(Tail(s)))

\* the body of the loop of _generate_crescimento_alerts for one client of
\* the recent data
CrescimentoGroup(recent_data, client) ==
    LET group == Rows(recent_data, LAMBDA t : t.client = client)
        months == SortedSeq({MonthOf(group[i].date) : i \in 1..Len(group)})
        monthly_sales == [i \in 1..Len(months) |->
            SumSeq(Column(Rows(group, LAMBDA t : MonthOf(t.date) = months[i]), "subtotal"))]
        pairs == SelectSeq([i \in 1..(Len(months) - 1) |-> i],
                           LAMBDA i : monthly_sales[i] > 0)
        growth_rates == [j \in 1..Len(pairs) |->
            Frac((monthly_sales[pairs[j] + 1] - monthly_sales[pairs[j]]) * 100,
                 monthly_sales[pairs[j]])]
        total == FracSum(growth_rates)
        avg_growth == Frac(total.n, total.d * Len(growth_rates))
    IN  IF Len(group) < 3 THEN <<>>
        ELSE IF Len(months) < 2 THEN <<>>
        ELSE IF growth_rates = <<>> THEN <<>>
        ELSE IF FracLt(Frac(15, 1), avg_growth)
        THEN <<Alert(client, None, "crescimento", <<avg_growth>>, "blue", "1 semana")>>
        ELSE <<>>

\* the loop body of _generate_crescimento_alerts raises TypeError for a
\* client with three recent rows when a monthly sum adds a number and a
\* text, or when the sums of two months, one of them a text, are compared
CrescimentoRaises(recent_data, client) ==
    LET group == Rows(recent_data, LAMBDA t : t.client = client)
        months == {MonthOf(group[i].date) : i \in 1..Len(group)}
    IN  /\ Len(group) >= 3
        /\ HasNonNumeric(group)
        /\ \/ Cardinality(months) >= 2
           \/ \E i \in 1..Len(group) : ~NonNumeric(group[i])

\* the try block of _generate_crescimento_alerts has raised
CrescimentoFails(df, ref) ==
    LET recent_data == Rows(df, LAMBDA t : t.date >= ref - 90)
    IN  \E client \in Range(Column(recent_data, "client")) :
           CrescimentoRaises(recent_data, client)

\* InsightsGenerator._generate_crescimento_alerts: an exception of the loop
\* is caught outside the loop and [] returned
_generate_crescimento_alerts(df, ref) ==
    LET cutoff_date == ref - 90
        recent_data == Rows(df, LAMBDA t : t.date >= cutoff_date)
        keys == SortedKeys(Range(Column(recent_data, "client")), ClientOrder)
    IN  IF CrescimentoFails(df, ref) THEN <<>>
        ELSE Concat([i \in 1..Len(keys) |-> CrescimentoGroup(recent_data, keys[i])])

\* df['sku'].value_counts().head(10): the ten most frequent SKUs
TopProducts(df) ==
    LET col == Column(df, "sku")
        count(s) == Len(SelectSeq(col, LAMBDA x : x = s))
    IN  {s \in Range(col) : Cardinality({u \in Range(col) : count(u) > count(s)}) < 10}

\* the alert of _generate_oportunidade_alerts for one client and one SKU the
\* client does not buy
OportunidadeSku(df, client, client_segment, missing_sku) ==
    LET segment_clients == {df[i].client : i \in {j \in 1..Len(df) : df[j].segment = client_segment}}
        segment_buyers == Cardinality({df[i].client : i \in
            {j \in 1..Len(df) : df[j].sku = missing_sku /\ df[j].client \in segment_clients}})
        penetration == IF client_segment # None
                       THEN IF segment_clients # {}
                            THEN Frac(segment_buyers * 100, Cardinality(segment_clients))
                            ELSE Zero
                       ELSE Frac(50, 1)
    IN  IF FracLt(Frac(30, 1), penetration)
        THEN <<Alert(client, missing_sku, "oportunidade", <<penetration>>, "yellow", "2 semanas")>>
        ELSE <<>>

\* the body of the loop of _generate_oportunidade_alerts for one client;
\* set_order is the iteration order of Python's set of missing SKUs
OportunidadeGroup(df, client, set_order) ==
    LET client_data == Rows(df, LAMBDA t : t.client = client)
        client_products == Range(Column(client_data, "sku"))
        missing_products == TopProducts(df) \ client_products
        listed == SelectSeq(set_order, LAMBDA s : s \in missing_products)
        first3 == SubSeq(listed, 1, IF Len(listed) < 3 THEN Len(listed) ELSE 3)
        client_segment == client_data[1].segment
    IN  IF missing_products # {} /\ Cardinality(client_products) >= 2
        THEN Concat([i \in 1..Len(first3) |->
                        OportunidadeSku(df, client, client_segment, first3[i])])
        ELSE <<>>

\* the loop body of _generate_oportunidade_alerts raises TypeError for a
\* client with two products and a missing top product when the mean of its
\* subtotals is taken over a text
OportunidadeRaises(df, client) ==
    LET client_data == Rows(df, LAMBDA t : t.client = client)
        client_products == Range(Column(client_data, "sku"))
        missing_products == TopProducts(df) \ client_products
    IN  /\ missing_products # {} /\ Cardinality(client_products) >= 2
        /\ HasNonNumeric(client_data)

\* the try block of _generate_oportunidade_alerts has raised
OportunidadeFails(df) ==
    \E client \in Range(Column(df, "client")) : OportunidadeRaises(df, client)

\* InsightsGenerator._generate_oportunidade_alerts: an exception of the
\* loop is caught outside the loop and [] returned
_generate_oportunidade_alerts(df, set_order) ==
    LET keys == SortedKeys(Range(Column(df, "client")), ClientOrder)
    IN  IF OportunidadeFails(df) THEN <<>>
        ELSE Concat([i \in 1..Len(keys) |-> OportunidadeGroup(df, keys[i], set_order)])

\* generate_rico_insights with rules that do not catch their own
\* exceptions: the try block of generate_rico_insights catches them
generate_rico_insights_rules_unguarded(transactions, ref, set_order) ==
    IF transactions = <<>> THEN <<>>
    ELSE IF \/ InatividadeFails(transactions, ref)
            \/ CrescimentoFails(transactions, ref)
            \/ OportunidadeFails(transactions)
    THEN <<>>
    ELSE _generate_ruptura_alerts(transactions, ref)
         \o _generate_inatividade_alerts(transactions, ref)
         \o _generate_crescimento_alerts(transactions, ref)
         \o _generate_oportunidade_alerts(transactions, set_order)

\* InsightsGenerator.generate_rico_insights: on an empty list the KeyError
\* of the missing 'date' column is caught and [] returned; no rule reads
\* the subtotal outside its own try block
generate_rico_insights(transactions, ref, set_order) ==
    IF transactions = <<>> THEN <<>>
    ELSE _generate_ruptura_alerts(transactions, ref)
         \o _generate_inatividade_alerts(transactions, ref)
         \o _generate_crescimento_alerts(transactions, ref)
         \o _generate_oportunidade_alerts(transactions, set_order)

(***************************************************************************)
(* Statistics primitives: analytics/estatistica.py                         *)
(*                                                                         *)
(* An element of an input sequence is a number (a date is the number of    *)
(* its day), None, or a string that is no number.                          *)
(***************************************************************************)
Num(v) == [kind |-> "num", v |-> v]
NoneElem == [kind |-> "None", v |-> 0]
Garbage == [kind |-> "str", v |-> 0]

\* an exception that leaves the function
Raise(e) == [raised |-> e]

\* round(x, 4) of a non-negative fraction
Round4(x) == Frac((2 * 10000 * x.n + x.d) \div (2 * x.d), 10000)

\* np.quantile(values, qn / qd) of a non-empty list of integers, linear
\* interpolation between the two nearest ranks
NpQuantile(values, qn, qd) ==
    LET srt == SortList(values)
        pos == (Len(srt) - 1) * qn
        lo == (pos \div qd) + 1
        rem == pos % qd
    IN  IF rem = 0 THEN Frac(srt[lo], 1)
        ELSE Frac(srt[lo] * qd + rem * (srt[lo + 1] - srt[lo]), qd)

\* the positions of a sequence that _to_series keeps: pd.to_numeric(...,
\* errors="coerce") turns None and strings into NaN and dropna() drops them
KeptIndex(valores) == {i \in 1..Len(valores) : valores[i].kind = "num"}

\* _to_series: the numeric values in their order
_to_series(valores) ==
    LET kept == SelectSeq(valores, LAMBDA e : e.kind = "num")
    IN  [i \in 1..Len(kept) |-> kept[i].v]

\* calcular_probabilidade_recompra counting the intervals strictly below the
\* window
calcular_probabilidade_recompra_strict(datas_pedidos, janela_dias) ==
    IF datas_pedidos = <<>> THEN Zero
    ELSE LET kept == SelectSeq(datas_pedidos, LAMBDA e : e.kind # "None")
         IN  IF Len(kept) < 2 THEN Zero
             ELSE IF \E i \in 1..Len(kept) : kept[i].kind = "str" THEN Raise("TypeError")
             ELSE LET datas_ordenadas == SortList([i \in 1..Len(kept) |-> kept[i].v])
                      deltas == Intervals(datas_ordenadas)
                      hits == Len(SelectSeq(deltas, LAMBDA d : d < janela_dias))
                  IN  Round4(Frac(hits, Len(deltas)))

\* calcular_probabilidade_recompra: None is falsy and filtered out, a string
\* is kept and makes sorted() or the subtraction raise TypeError
calcular_probabilidade_recompra(datas_pedidos, janela_dias) ==
    IF datas_pedidos = <<>> THEN Zero
    ELSE LET kept == SelectSeq(datas_pedidos, LAMBDA e : e.kind # "None")
         IN  IF Len(kept) < 2 THEN Zero
             ELSE IF \E i \in 1..Len(kept) : kept[i].kind = "str" THEN Raise("TypeError")
             ELSE LET datas_ordenadas == SortList([i \in 1..Len(kept) |-> kept[i].v])
                      deltas == Intervals(datas_ordenadas)
                      hits == Len(SelectSeq(deltas, LAMBDA d : d <= janela_dias))
                  IN  Round4(Frac(hits, Len(deltas)))

\* intervalo_confianca_giro, confianca = cn / cd
intervalo_confianca_giro(intervalos_dias, cn, cd) ==
    LET serie == _to_series(intervalos_dias)
    IN  IF serie = <<>> THEN <<Zero, Zero>>
        ELSE <<NpQuantile(serie, cd - cn, 2 * cd), NpQuantile(serie, cd + cn, 2 * cd)>>

\* detectar_outlier_volume flagging |z| >= z_limite
detectar_outlier_volume_non_strict(valores, z_limite) ==
    LET serie == _to_series(valores)
        n == Len(serie)
        sm == SumSeq(serie)
        dev == n * SumSeq([i \in 1..n |-> serie[i] * serie[i]]) - sm * sm
    IN  IF serie = <<>> THEN [i \in {} |-> FALSE]
        ELSE IF dev = 0 THEN [i \in KeptIndex(valores) |-> FALSE]
        ELSE [i \in KeptIndex(valores) |->
                 (n * valores[i].v - sm) * (n * valores[i].v - sm) >= z_limite * z_limite * dev]

\* detectar_outlier_volume: a boolean Series over the index of the values
\* _to_series keeps; |x - media| / desvio > z_limite is compared in squares
detectar_outlier_volume(valores, z_limite) ==
    LET serie == _to_series(valores)
        n == Len(serie)
        sm == SumSeq(serie)
        dev == n * SumSeq([i \in 1..n |-> serie[i] * serie[i]]) - sm * sm
    IN  IF serie = <<>> THEN [i \in {} |-> FALSE]
        ELSE IF dev = 0 THEN [i \in KeptIndex(valores) |-> FALSE]
        ELSE [i \in KeptIndex(valores) |->
                 (n * valores[i].v - sm) * (n * valores[i].v - sm) > z_limite * z_limite * dev]

\* calcular_cv_giro
calcular_cv_giro(intervalos_dias) ==
    LET serie == _to_series(intervalos_dias)
        media == NpMean(serie)
        var == NpVar(serie)
    IN  IF serie = <<>> THEN Zero
        ELSE IF media.n = 0 THEN Zero
        ELSE Sqrt(Frac(var.n * media.d * media.d, var.d * media.n * media.n))

\* bool(e) of an element
Truthy(e) == IF e.kind = "num" THEN e.v # 0 ELSE e.kind = "str"

\* score_sobrevivencia_bayesiana without the guard on an empty sequence
score_sobrevivencia_bayesiana_unguarded(eventos, alfa, beta) ==
    Round4(Frac(Len(SelectSeq(eventos, Truthy)) + alfa, Len(eventos) + alfa + beta))

\* score_sobrevivencia_bayesiana
score_sobrevivencia_bayesiana(eventos, alfa, beta) ==
    IF eventos = <<>> THEN Zero
    ELSE LET sucessos == Len(SelectSeq(eventos, Truthy))
             total == Len(eventos)
         IN  Round4(Frac(sucessos + alfa, total + alfa + beta))

(***************************************************************************)
(* The transaction sets the engines are run on.                            *)
(***************************************************************************)
TxDomain ==
    [client : Clients, sku : Skus, order_id : Orders, date : Dates,
     subtotal : Subtotals, segment : Segments \cup {None}]

BaseTx ==
    [client |-> "c1", sku |-> "A", order_id |-> "o1", date |-> 0,
     subtotal |-> 1, segment |-> None]

\* the transactions that differ from BaseTx in the given fields only
Family(fields) ==
    {t \in TxDomain : \A f \in (DOMAIN BaseTx) \ fields : t[f] = BaseTx[f]}

\* the transactions of a family dated on the epoch or DayStep days later
Early(family) == {t \in family : t.date <= DayStep}

\* every single transaction, and up to MaxTx rows that vary in date, in
\* client and early date, in order, or in client and subtotal
TxSets ==
    SeqsUpTo(TxDomain, 1)
    \cup SeqsUpTo(Family({"date"}), MaxTx)
    \cup SeqsUpTo(Early(Family({"client", "date"})), MaxTx)
    \cup SeqsUpTo(Family({"order_id"}), MaxTx)
    \cup SeqsUpTo(Family({"client", "subtotal"}), MaxTx)

\* up to MaxTx rows that vary in client and subtotal and carry the segment of
\* the client's registry entry (c1: s1, c2: s2) or none
SegmentTxSets ==
    SeqsUpTo({t \in Family({"client", "subtotal", "segment"}) :
                 t.segment \in {None, IF t.client = "c1" THEN "s1" ELSE "s2"}}, MaxTx)

\* the orders in which a Python set of SKUs can be iterated
SetOrders ==
    {o \in [1..Len(SkuOrder) -> Skus] : \A i, j \in 1..Len(SkuOrder) : i # j => o[i] # o[j]}

NoCall == [op |-> None]

\* the identifiers of the datasets
DatasetIds == {"d1", "d2"}

\* the requests that can be in flight at once, and none in flight
Requests == {1, 2}
NoReqs == [r \in Requests |-> [pc |-> "idle"]]

\* the database with no document
NoDb ==
    [datasets |-> {}, requests |-> <<>>, transactions |-> [d \in DatasetIds |-> <<>>],
     alerts |-> <<>>, analytics_customer |-> <<>>, analytics_product |-> <<>>]

\* sha256 of the content of a file, and of the joined hashes of the files of
\* a dataset; the two never coincide
FileHash(content) == [of |-> "file", parts |-> <<content>>]
DatasetHash(all_hash_parts) == [of |-> "dataset", parts |-> all_hash_parts]

\* a document of the datasets collection
DatasetDoc(dataset_id, hash, status) == [_id |-> dataset_id, hash |-> hash, status |-> status]

\* the document of a dataset whose upload has finished
Uploaded(dataset_id) == DatasetDoc(dataset_id, DatasetHash(<<dataset_id>>), "READY")

\* db.datasets.find_one({"_id": dataset_id}) finds a document
HasDataset(database, dataset_id) == \E doc \in database.datasets : doc._id = dataset_id

(***************************************************************************)
(* The analysis of one dataset.                                            *)
(***************************************************************************)
InitOn(inputs) ==
    /\ txs \in inputs
    /\ now = 0
    /\ engine = [class |-> None]
    /\ last = NoCall
    /\ stat_in = <<>>
    /\ stat_out = NoCall
    /\ db = NoDb
    /\ reqs = NoReqs

Init == InitOn(TxSets)

InitSegments == InitOn(SegmentTxSets)

\* a day (DayStep days) passes
Tick ==
    /\ now < MaxNow * DayStep
    /\ now' = now + DayStep
    /\ UNCHANGED <<txs, engine, last, stat_in, stat_out, db, reqs>>

\* MetricsCalculator.__init__
NewMetricsCalculator ==
    /\ engine' = [class |-> "MetricsCalculator", reference_date |-> now]
    /\ UNCHANGED <<txs, now, last, stat_in, stat_out, db, reqs>>

\* InsightsGenerator.__init__
NewInsightsGenerator ==
    /\ engine' = [class |-> "InsightsGenerator", reference_date |-> now]
    /\ UNCHANGED <<txs, now, last, stat_in, stat_out, db, reqs>>

\* the record of a call: the engine's reference date, the wall clock at the
\* call and the value returned
Call(op, ret) ==
    [op |-> op, reference_date |-> engine.reference_date, called_at |-> now, ret |-> ret]

CalculateCustomerRfm ==
    /\ engine.class = "MetricsCalculator"
    /\ last' = Call("calculate_customer_rfm",
                    calculate_customer_rfm(txs, engine.reference_date))
    /\ UNCHANGED <<txs, now, engine, stat_in, stat_out, db, reqs>>

CalculateProductAnalytics ==
    /\ engine.class = "MetricsCalculator"
    /\ last' = Call("calculate_product_analytics", calculate_product_analytics(txs))
    /\ UNCHANGED <<txs, now, engine, stat_in, stat_out, db, reqs>>

CalculateGeneralKpis ==
    /\ engine.class = "MetricsCalculator"
    /\ last' = Call("calculate_general_kpis",
                    calculate_general_kpis(txs, engine.reference_date))
    /\ UNCHANGED <<txs, now, engine, stat_in, stat_out, db, reqs>>

GenerateRicoInsights ==
    /\ engine.class = "InsightsGenerator"
    /\ \E set_order \in SetOrders :
          last' = Call("generate_rico_insights",
                       generate_rico_insights(txs, engine.reference_date, set_order))
    /\ UNCHANGED <<txs, now, engine, stat_in, stat_out, db, reqs>>

Next ==
    \/ Tick
    \/ NewMetricsCalculator
    \/ NewInsightsGenerator
    \/ CalculateCustomerRfm
    \/ CalculateProductAnalytics
    \/ CalculateGeneralKpis
    \/ GenerateRicoInsights

Spec == Init /\ [][Next]_vars

\* the same engines on datasets whose rows vary in segment and subtotal
SpecSegments == InitSegments /\ [][Next]_vars

\* up to MaxTx rows of one client and one SKU, either ordered a few days
\* apart or bought on the first day of different months for small and large
\* amounts
InsightTxSets ==
    SeqsUpTo({[BaseTx EXCEPT !.order_id = o, !.date = d] : o \in Orders, d \in {0, 5, 10}},
             MaxTx)
    \cup SeqsUpTo({[BaseTx EXCEPT !.date = d, !.subtotal = v] : d \in {MonthStarts[i] : i \in 1..3},
                                                                     v \in {1, 8, 9}},
                  MaxTx)

InitInsights == InitOn(InsightTxSets)

\* the same engines on the datasets of InsightTxSets
SpecInsights == InitInsights /\ [][Next]_vars

(***************************************************************************)
(* Properties of the Metrics Engine and of the Insights Engine.            *)
(***************************************************************************)
RFM == "calculate_customer_rfm"
PRODUCTS == "calculate_product_analytics"
KPIS == "calculate_general_kpis"
INSIGHTS == "generate_rico_insights"

\* the rows of a client in the dataset
ClientRows(c) == Rows(txs, LAMBDA t : t.client = c)

TierOfScore(score) ==
    IF FracLeq(Frac(85, 100), score) THEN "hero"
    ELSE IF FracLeq(Frac(65, 100), score) THEN "growth"
    ELSE IF FracLeq(Frac(45, 100), score) THEN "manter"
    ELSE "risco"

\* C2: the tier of every CustomerAnalytics record is the one its rfm_score
\* gives: hero from 0.85, growth from 0.65, manter from 0.45, else risco.
C2_TierFromScore ==
    last.op = RFM =>
        \A i \in 1..Len(last.ret) : last.ret[i].tier = TierOfScore(last.ret[i].rfm_score)

\* the share of a segment in the total revenue of the dataset
SegmentShare(seg) ==
    Frac(SumSeq(Column(Rows(txs, LAMBDA t : t.segment = seg), "subtotal")),
         SumSeq(Column(txs, "subtotal")))

\* C3: of two clients with the same recency, frequency and monetary, the one
\* whose dominant segment has the strictly larger share of the total revenue
\* has the strictly greater rfm_score.
C3_SegmentWeightOrdersScores ==
    last.op = RFM =>
        \A i, j \in 1..Len(last.ret) :
            LET a == last.ret[i]
                b == last.ret[j]
            IN  (/\ a.recency = b.recency
                 /\ a.frequency = b.frequency
                 /\ a.monetary = b.monetary
                 /\ a.segment # None
                 /\ b.segment # None
                 /\ FracLt(SegmentShare(b.segment), SegmentShare(a.segment)))
                => FracLt(b.rfm_score, a.rfm_score)

\* the record of a client in a list of CustomerAnalytics
RecordOf(records, c) == records[CHOOSE i \in 1..Len(records) : records[i].client = c]

\* the percentile rank (average method, ties share their rank) of a client's
\* monetary among the monetary values of all records
MonetaryPct(records, c) ==
    LET m == RecordOf(records, c).monetary
        less == Cardinality({i \in 1..Len(records) : records[i].monetary < m})
        equal == Cardinality({i \in 1..Len(records) : records[i].monetary = m})
    IN  Frac(2 * less + equal + 1, 2 * Len(records))

\* the dataset with the subtotal of row i raised to s
Raised(i, s) == [txs EXCEPT ![i].subtotal = s]

OrderDates(c) == {txs[i].date : i \in {j \in 1..Len(txs) : txs[j].client = c}}

\* the earlier date of every pair of consecutive distinct order dates
GapStarts(c) == OrderDates(c) \ {Max(OrderDates(c))}

\* the days from a date of GapStarts to the client's next order date
Gap(c, d) == Min({e \in OrderDates(c) : e > d}) - d

\* the k-th smallest gap of a client, by counting
KthGap(c, k) ==
    CHOOSE g \in {Gap(c, d) : d \in GapStarts(c)} :
        /\ Cardinality({d \in GapStarts(c) : Gap(c, d) < g}) < k
        /\ Cardinality({d \in GapStarts(c) : Gap(c, d) <= g}) >= k

\* the median of the gaps of a client with at least two distinct order dates
MedianGap(c) ==
    LET n == Cardinality(GapStarts(c))
    IN  IF n % 2 = 1 THEN Frac(KthGap(c, (n + 1) \div 2), 1)
        ELSE Frac(KthGap(c, n \div 2) + KthGap(c, (n \div 2) + 1), 2)

C7_RecencyFrequencyBounds ==
    last.op = RFM =>
        \A i \in 1..Len(last.ret) : last.ret[i].recency >= 0 /\ last.ret[i].frequency >= 1

\* the revenue of a SKU: the sum of the subtotals of its rows
SkuRevenue(sku) == SumSeq(Column(Rows(txs, LAMBDA t : t.sku = sku), "subtotal"))

\* the 80th percentile of the per-SKU revenue of the dataset
HeroThreshold ==
    LET skus == Unique(Column(txs, "sku"))
    IN  NpQuantile([i \in 1..Len(skus) |-> SkuRevenue(skus[i])], 4, 5)

\* C8: calculate_product_analytics returns a record for every distinct SKU
\* of a non-empty transaction set, with hero_mix true when the revenue of the
\* SKU is at or above the 80th percentile of the per-SKU revenue and not true
\* when it is below.
C8_RecordPerSkuWithHeroMix ==
    (last.op = PRODUCTS /\ txs # <<>>) =>
        \A sku \in Range(Column(txs, "sku")) :
            \E i \in 1..Len(last.ret) :
                /\ last.ret[i].sku = sku
                /\ FracLeq(HeroThreshold, Frac(SkuRevenue(sku), 1))
                      => last.ret[i].hero_mix = "True"
                /\ FracLt(Frac(SkuRevenue(sku), 1), HeroThreshold)
                      => last.ret[i].hero_mix # "True"

\* the KPI fields of the dictionary of calculate_general_kpis
KpiFields ==
    {"total_revenue", "total_customers", "total_products", "total_orders",
     "avg_ticket", "avg_recency", "avg_frequency"}

\* C9: on an empty transaction set calculate_customer_rfm,
\* calculate_product_analytics and generate_rico_insights return an empty
\* list and calculate_general_kpis returns a dictionary that holds the KPI
\* fields with zero values.
C9_EmptyTransactionSet ==
    txs = <<>> =>
        /\ last.op \in {RFM, PRODUCTS, INSIGHTS} => last.ret = <<>>
        /\ last.op = KPIS =>
              /\ KpiFields \subseteq DOMAIN last.ret
              /\ \A k \in KpiFields : last.ret[k] = Zero

(***************************************************************************)
(* The statistics primitives applied to one input sequence.                *)
(***************************************************************************)
StatElems == {Num(v) : v \in 0..MaxVal} \cup {NoneElem, Garbage}

\* janela_dias, confianca (as numerator and denominator) and z_limite of
\* the calls
Windows == {1, 2}
Confidences == {<<4, 5>>, <<19, 20>>}
ZLimits == {1, 2}

InitStats ==
    /\ stat_in \in SeqsUpTo(StatElems, MaxLen)
    /\ stat_out = NoCall
    /\ txs = <<>>
    /\ now = 0
    /\ engine = [class |-> None]
    /\ last = NoCall
    /\ db = NoDb
    /\ reqs = NoReqs

\* the record of a call of a primitive: its second argument and the value
\* returned or the exception raised
StatCall(op, arg, ret) == [op |-> op, arg |-> arg, ret |-> ret]

CalcularProbabilidadeRecompra ==
    /\ \E janela_dias \in Windows :
          stat_out' = StatCall("calcular_probabilidade_recompra", janela_dias,
                               calcular_probabilidade_recompra(stat_in, janela_dias))
    /\ UNCHANGED <<txs, now, engine, last, stat_in, db, reqs>>

IntervaloConfiancaGiro ==
    /\ \E confianca \in Confidences :
          stat_out' = StatCall("intervalo_confianca_giro", confianca,
                               intervalo_confianca_giro(stat_in, confianca[1], confianca[2]))
    /\ UNCHANGED <<txs, now, engine, last, stat_in, db, reqs>>

DetectarOutlierVolume ==
    /\ \E z_limite \in ZLimits :
          stat_out' = StatCall("detectar_outlier_volume", z_limite,
                               detectar_outlier_volume(stat_in, z_limite))
    /\ UNCHANGED <<txs, now, engine, last, stat_in, db, reqs>>

CalcularCvGiro ==
    /\ stat_out' = StatCall("calcular_cv_giro", None, calcular_cv_giro(stat_in))
    /\ UNCHANGED <<txs, now, engine, last, stat_in, db, reqs>>

ScoreSobrevivenciaBayesiana ==
    /\ stat_out' = StatCall("score_sobrevivencia_bayesiana", <<1, 1>>,
                            score_sobrevivencia_bayesiana(stat_in, 1, 1))
    /\ UNCHANGED <<txs, now, engine, last, stat_in, db, reqs>>

NextStats ==
    \/ CalcularProbabilidadeRecompra
    \/ IntervaloConfiancaGiro
    \/ DetectarOutlierVolume
    \/ CalcularCvGiro
    \/ ScoreSobrevivenciaBayesiana

SpecStats == InitStats /\ [][NextStats]_vars

\* C10: on an empty sequence the repurchase probability is 0.0, the turnover
\* confidence interval (0.0, 0.0), the outlier mask empty, the coefficient of
\* variation 0.0 and the survival score 0.0, and no primitive raises; the
\* repurchase probability of a single date is 0.0.
C10_EmptyInputDefaults ==
    /\ stat_in = <<>> =>
          /\ stat_out.op = "calcular_probabilidade_recompra" => stat_out.ret = Zero
          /\ stat_out.op = "intervalo_confianca_giro" => stat_out.ret = <<Zero, Zero>>
          /\ stat_out.op = "detectar_outlier_volume" => DOMAIN stat_out.ret = {}
          /\ stat_out.op = "calcular_cv_giro" => stat_out.ret = Zero
          /\ stat_out.op = "score_sobrevivencia_bayesiana" => stat_out.ret = Zero
    /\ (Len(stat_in) = 1 /\ stat_in[1].kind = "num"
        /\ stat_out.op = "calcular_probabilidade_recompra") => stat_out.ret = Zero

\* the survival score of the empty sequence has been computed
C10_Witness ==
    /\ stat_in = <<>>
    /\ stat_out.op = "score_sobrevivencia_bayesiana"

(***************************************************************************)
(* Properties of the statistics primitives.                                *)
(***************************************************************************)
PROB == "calcular_probabilidade_recompra"
OUTLIER == "detectar_outlier_volume"

\* every element of the input is a number (a date)
AllNumeric == \A i \in 1..Len(stat_in) : stat_in[i].kind = "num"

\* the dates of the input in ascending order
SortedDates == SortList([i \in 1..Len(stat_in) |-> stat_in[i].v])

\* the number of consecutive dates of the sorted input at most w days apart
Hits(w) ==
    Cardinality({i \in 1..(Len(stat_in) - 1) : SortedDates[i + 1] - SortedDates[i] <= w})

\* a repurchase probability has been computed on at least 2 dates
C11_Case == AllNumeric /\ Len(stat_in) >= 2 /\ stat_out.op = PROB

\* what C11 says beside the value itself: the result lies in [0, 1], for
\* exactly 2 dates it is 1.0 or 0.0 as their delta is within the window or
\* not, and it is 1.0 when every delta is within the window
C11_Shape ==
    /\ FracLeq(Zero, stat_out.ret) /\ FracLeq(stat_out.ret, Frac(1, 1))
    /\ Len(stat_in) = 2 =>
          stat_out.ret = (IF Abs(stat_in[2].v - stat_in[1].v) <= stat_out.arg
                          THEN Frac(1, 1) ELSE Zero)
    /\ Hits(stat_out.arg) = Len(stat_in) - 1 => stat_out.ret = Frac(1, 1)

\* C11 as stated: on at least 2 dates calcular_probabilidade_recompra returns
\* the fraction of the deltas of the sorted dates that are <= the window
C11_ExactFraction ==
    C11_Case =>
       /\ stat_out.ret = Frac(Hits(stat_out.arg), Len(stat_in) - 1)
       /\ C11_Shape

\* C11 (amended): on at least 2 dates calcular_probabilidade_recompra returns
\* the fraction of the deltas of the sorted dates that are <= the window,
\* rounded to 4 decimal places: a multiple of 1/10000 at most 1/20000 away
\* from the fraction; it lies in [0, 1], is 1.0 or 0.0 for exactly 2 dates and
\* 1.0 when every delta is within the window
C11_RoundedFraction ==
    C11_Case =>
       LET hits == Hits(stat_out.arg)
           n == Len(stat_in) - 1
           r == stat_out.ret
       IN  /\ 10000 % r.d = 0
           /\ 2 * 10000 * Abs(r.n * n - hits * r.d) <= r.d * n
           /\ C11_Shape

\* the probability of 3 deltas of which only some are within the window
C11_Witness ==
    /\ C11_Case
    /\ Len(stat_in) = 4
    /\ Hits(stat_out.arg) \in {1, 2}

\* n times the sum of the input values, and n^2 times their population
\* variance (ddof = 0), n the length of the input
InSum == SumSeq([i \in 1..Len(stat_in) |-> stat_in[i].v])
InDev == Len(stat_in) * SumSeq([i \in 1..Len(stat_in) |-> stat_in[i].v * stat_in[i].v])
            - InSum * InSum

\* |values[i] - mean| / std > z, both sides multiplied by n * std and squared
ZAbove(i, z) ==
    LET d == Abs(Len(stat_in) * stat_in[i].v - InSum)
    IN  d * d > z * z * InDev

\* the volumes of the repository's test and the mask expected of them
TestVolumes == <<Num(10), Num(11), Num(12), Num(100), Num(11), Num(9)>>
TestMask == [i \in 1..6 |-> i = 4]

Valid == SelectSeq(stat_in, LAMBDA e : e.kind = "num")

\* the entries of a mask in the order of its index
MaskValues(mask) ==
    LET idx == SortedSeq(DOMAIN mask)
    IN  [k \in 1..Len(idx) |-> mask[idx[k]]]

\* C13: every primitive drops the elements of its input that are no numbers
\* and returns what it returns on the remaining elements; none raises.
C13_GarbageDropped ==
    /\ stat_out.op = PROB =>
          stat_out.ret = calcular_probabilidade_recompra(Valid, stat_out.arg)
    /\ stat_out.op = "intervalo_confianca_giro" =>
          stat_out.ret = intervalo_confianca_giro(Valid, stat_out.arg[1], stat_out.arg[2])
    /\ stat_out.op = OUTLIER =>
          MaskValues(stat_out.ret) = MaskValues(detectar_outlier_volume(Valid, stat_out.arg))
    /\ stat_out.op = "calcular_cv_giro" => stat_out.ret = calcular_cv_giro(Valid)
    /\ stat_out.op = "score_sobrevivencia_bayesiana" =>
          stat_out.ret = score_sobrevivencia_bayesiana(Valid, stat_out.arg[1], stat_out.arg[2])

(***************************************************************************)
(* Properties of the rules of the Insights Engine.                         *)
(***************************************************************************)
\* the rows of a (client, sku) group of the dataset
GroupRows(c, k) == SelectSeq(txs, LAMBDA t : t.client = c /\ t.sku = k)

\* the purchase dates of a group, ascending
GroupDates(c, k) == SortedSeq(Range(Column(GroupRows(c, k), "date")))

\* the ruptura alerts of the last generation for a group
RupturaAlerts(c, k) ==
    {i \in 1..Len(last.ret) :
        last.ret[i].type = "ruptura" /\ last.ret[i].client = c /\ last.ret[i].sku = k}

\* a group with at least 2 orders placed on at least 2 days
Qualifies(c, k) ==
    /\ NUnique(Column(GroupRows(c, k), "order_id")) >= 2
    /\ Len(GroupDates(c, k)) >= 2

\* C14: every (client, sku) group with at least 2 orders gets a ruptura alert
\* that carries a reliability tier, whatever the number of days since the
\* last purchase.
C14_RupturaNeverGated ==
    last.op = INSIGHTS =>
       \A c \in Clients, k \in Skus :
          Qualifies(c, k) =>
             \E i \in RupturaAlerts(c, k) : last.ret[i].reliability \in {"blue", "yellow", "red"}

\* the tier of the confidence ratio
\* r = min(1, days_since_last / max(1, median_interval + logistics_delay)):
\* blue (high) for r >= 0.75, yellow (medium) for r >= 0.4, else red (low);
\* the median is a fraction n / d
RatioTier(days_since_last, median) ==
    LET den == Max({median.d, median.n + delay_logistico * median.d})
        num == Min({den, days_since_last * median.d})
    IN  IF 4 * num >= 3 * den THEN "blue"
        ELSE IF 5 * num >= 2 * den THEN "yellow"
        ELSE "red"

\* C15: the reliability of every ruptura alert is the tier of its confidence
\* ratio, one of high, medium and low.
C15_ReliabilityFromRatio ==
    last.op = INSIGHTS =>
       \A i \in 1..Len(last.ret) :
          last.ret[i].type = "ruptura" =>
             LET dates == GroupDates(last.ret[i].client, last.ret[i].sku)
             IN  last.ret[i].reliability =
                    RatioTier(last.reference_date - dates[Len(dates)],
                              NpMedian(Intervals(dates)))

\* the months in which a client bought, ascending, and the revenue of each
BucketMonths(c) == SortedSeq({MonthOf(ClientRows(c)[i].date) : i \in 1..Len(ClientRows(c))})
Buckets(c) ==
    [i \in 1..Len(BucketMonths(c)) |->
        SumSeq(Column(SelectSeq(ClientRows(c), LAMBDA t : MonthOf(t.date) = BucketMonths(c)[i]),
                      "subtotal"))]

\* the latest bucket is below the mean of the m prior buckets and its Z-score
\* (latest - mean) / std against them is <= -1.5: with S and Q the sum and
\* the sum of squares of the prior buckets, S - m * latest > 0 and
\* 2 * (S - m * latest) >= 3 * sqrt(m * Q - S^2)
SharpDrop(c) ==
    LET b == Buckets(c)
        m == Len(b) - 1
        prior == SubSeq(b, 1, m)
        S == SumSeq(prior)
        Q == SumSeq([i \in 1..m |-> prior[i] * prior[i]])
        gap == S - m * b[Len(b)]
    IN  gap > 0 /\ 4 * gap * gap >= 9 * (m * Q - S * S)

\* C18: a client with at least 3 monthly revenue buckets gets a queda_brusca
\* alert exactly when the latest bucket is below the mean of the prior ones
\* with a Z-score <= -1.5; a client with fewer buckets gets none.
C18_QuedaBruscaRule ==
    last.op = INSIGHTS =>
       \A c \in Clients :
          (\E i \in 1..Len(last.ret) :
              last.ret[i].type = "queda_brusca" /\ last.ret[i].client = c)
          <=> (Len(Buckets(c)) >= 3 /\ SharpDrop(c))

(***************************************************************************)
(* PDV segmentation: analytics/segmentador_pdv.py                          *)
(***************************************************************************)
FracMul(a, b) == Frac(a.n * b.n, a.d * b.d)

\* a / b for b > 0
FracDiv(a, b) == Frac(a.n * b.d, a.d * b.n)

FracMax(a, b) == IF FracLt(a, b) THEN b ELSE a

\* SegmentadorPDV.__init__: the default weights 0.35, 0.35 and 0.30
peso_mix == Frac(35, 100)
peso_volume == Frac(35, 100)
peso_frequencia == Frac(30, 100)

\* SegmentadorPDV._vetor_cliente: the behaviour vector of one client
_vetor_cliente(dados_cliente) ==
    LET total_pedidos == NUnique(Column(dados_cliente, "order_id"))
        dias == Intervals(SortList(Column(dados_cliente, "date")))
        dates == Range(Column(dados_cliente, "date"))
        span == Max(dates) - Min(dates)
    IN  [mix |-> NUnique(Column(dados_cliente, "sku")),
         volume |-> SumSeq(Column(dados_cliente, "qty")),
         \* total_pedidos / max(1, span / 30 or 1)
         freq |-> IF span <= 30 THEN Frac(total_pedidos, 1)
                  ELSE Frac(total_pedidos * 30, span),
         giro_mediano |-> IF dias # <<>> THEN NpMedian(dias) ELSE Zero]

\* Series.mean() of a column of floats
FracMean(s) == LET t == FracSum(s) IN Frac(t.n, t.d * Len(s))

\* SegmentoPDV; justificativa holds the numbers its text is formatted from
SegmentoPDV(client, score, justificativa, gatilhos) ==
    [client |-> client, score |-> score, justificativa |-> justificativa,
     gatilhos |-> gatilhos]

\* segmentos.sort(key=score) in ascending order
RECURSIVE SortByScoreAscending(_)
SortByScoreAscending(segmentos) ==
    IF segmentos = <<>> THEN <<>>
    ELSE LET rest == SortByScoreAscending(Tail(segmentos))
             x == Head(segmentos)
         IN  SelectSeq(rest, LAMBDA y : FracLt(y.score, x.score)) \o <<x>>
             \o SelectSeq(rest, LAMBDA y : ~FracLt(y.score, x.score))

\* segmentos.sort(key=lambda s: s.score, reverse=True): descending by score,
\* stable (segments of equal score keep their order)
RECURSIVE SortByScoreReverse(_)
SortByScoreReverse(segmentos) ==
    IF segmentos = <<>> THEN <<>>
    ELSE LET rest == SortByScoreReverse(Tail(segmentos))
             x == Head(segmentos)
         IN  SelectSeq(rest, LAMBDA y : FracLt(x.score, y.score)) \o <<x>>
             \o SelectSeq(rest, LAMBDA y : ~FracLt(x.score, y.score))

\* SegmentadorPDV.avaliar
avaliar(transacoes) ==
    IF transacoes = <<>> THEN <<>>
    ELSE
    LET clients == SortedKeys(Range(Column(transacoes, "client")), ClientOrder)
        baseline == [i \in 1..Len(clients) |->
                        _vetor_cliente(SelectSeq(transacoes, LAMBDA t : t.client = clients[i]))]
        n == Len(baseline)
        media_mix == Frac(SumSeq([i \in 1..n |-> baseline[i].mix]), n)
        media_volume == Frac(SumSeq([i \in 1..n |-> baseline[i].volume]), n)
        media_freq == FracMean([i \in 1..n |-> baseline[i].freq])
        media_giro == FracMean([i \in 1..n |-> baseline[i].giro_mediano])
        mediana_mix == NpMedian([i \in 1..n |-> baseline[i].mix])
        mediana_volume == NpMedian([i \in 1..n |-> baseline[i].volume])
        One == Frac(1, 1)
        segmento(i) ==
            LET vetor == baseline[i]
                normal_mix == FracDiv(Frac(vetor.mix, 1), FracMax(One, media_mix))
                normal_volume == FracDiv(Frac(vetor.volume, 1), FracMax(One, media_volume))
                normal_freq == FracDiv(vetor.freq, FracMax(One, media_freq))
                score == FracAdd(FracAdd(FracMul(normal_mix, peso_mix),
                                         FracMul(normal_volume, peso_volume)),
                                 FracMul(normal_freq, peso_frequencia))
                gatilhos ==
                    (IF FracLt(Frac(vetor.mix, 1), mediana_mix)
                     THEN <<"mix abaixo do cluster">> ELSE <<>>)
                    \o (IF FracLt(Frac(2 * vetor.volume, 1), mediana_volume)
                        THEN <<"ausencia anomala de SKU esperado">> ELSE <<>>)
                    \o (IF FracLt(FracMul(media_giro, Frac(3, 2)), vetor.giro_mediano)
                        THEN <<"giro lento em relacao ao cluster">> ELSE <<>>)
            IN  SegmentoPDV(clients[i], Round4(score),
                            <<vetor.mix, vetor.volume, vetor.freq>>, gatilhos)
    IN  SortByScoreReverse([i \in 1..n |-> segmento(i)])

\* the quantities of the rows
Quantities == {1, 2}

\* a row of client c1 for one unit of SKU A in order o1 on the epoch
BasePdvTx == [client |-> "c1", sku |-> "A", order_id |-> "o1", date |-> 0, qty |-> 1]

\* up to MaxTx rows that vary in client and date, in client, order and
\* quantity, or in client and SKU
PdvTxSets ==
    SeqsUpTo({[BasePdvTx EXCEPT !.client = c, !.date = d] : c \in Clients, d \in Dates}, MaxTx)
    \cup SeqsUpTo({[BasePdvTx EXCEPT !.client = c, !.order_id = o, !.qty = q] :
                      c \in Clients, o \in Orders, q \in Quantities}, MaxTx)
    \cup SeqsUpTo({[BasePdvTx EXCEPT !.client = c, !.sku = k] : c \in Clients, k \in Skus},
                  MaxTx)

InitPDV == InitOn(PdvTxSets)

\* SegmentadorPDV.__init__
NewSegmentadorPDV ==
    /\ engine' = [class |-> "SegmentadorPDV", reference_date |-> None]
    /\ UNCHANGED <<txs, now, last, stat_in, stat_out, db, reqs>>

Avaliar ==
    /\ engine.class = "SegmentadorPDV"
    /\ last' = Call("avaliar", avaliar(txs))
    /\ UNCHANGED <<txs, now, engine, stat_in, stat_out, db, reqs>>

NextPDV ==
    \/ NewSegmentadorPDV
    \/ Avaliar

SpecPDV == InitPDV /\ [][NextPDV]_vars

(***************************************************************************)
(* Properties of the PDV segmentation.                                     *)
(***************************************************************************)
AVALIAR == "avaliar"

\* the sum of the three weights
WeightSum == FracAdd(FracAdd(peso_mix, peso_volume), peso_frequencia)

\* C19: on a dataset with a single client avaliar returns one segment whose
\* score is the sum of the three weights (every normalized ratio is 1.0),
\* whatever the client's history.
C19_SingleClientNeutral ==
    (last.op = AVALIAR /\ NUnique(Column(txs, "client")) = 1) =>
       /\ Len(last.ret) = 1
       /\ last.ret[1].score = WeightSum

\* the position of a client in the order of the input rows: the first row
\* that names it
FirstRow(c) == Min({i \in 1..Len(txs) : txs[i].client = c})

\* one segment per distinct client, in non-increasing order of score
C20_Sorted ==
    /\ Len(last.ret) = NUnique(Column(txs, "client"))
    /\ {last.ret[i].client : i \in 1..Len(last.ret)} = Range(Column(txs, "client"))
    /\ \A i, j \in 1..Len(last.ret) : i < j => FracLeq(last.ret[j].score, last.ret[i].score)

\* C20 as stated: one segment per distinct client in non-increasing order of
\* score, and clients of equal score in the order in which the input names
\* them
C20_TiesInInputOrder ==
    last.op = AVALIAR =>
       /\ C20_Sorted
       /\ \A i, j \in 1..Len(last.ret) :
             (i < j /\ last.ret[i].score = last.ret[j].score) =>
                FirstRow(last.ret[i].client) < FirstRow(last.ret[j].client)

\* the position of a client in the ascending order of the client keys
KeyRank(c) == CHOOSE i \in 1..Len(ClientOrder) : ClientOrder[i] = c

\* C20 (amended): one segment per distinct client in non-increasing order of
\* score, and clients of equal score in the order in which avaliar iterates
\* them, the ascending order of the client keys
C20_TiesInKeyOrder ==
    last.op = AVALIAR =>
       /\ C20_Sorted
       /\ \A i, j \in 1..Len(last.ret) :
             (i < j /\ last.ret[i].score = last.ret[j].score) =>
                KeyRank(last.ret[i].client) < KeyRank(last.ret[j].client)

\* two clients of different score of which the input names the lower first,
\* or two clients of equal score of which the input names the second key first
C20_Witness ==
    /\ last.op = AVALIAR
    /\ Len(last.ret) = 2
    /\ \/ /\ last.ret[1].score # last.ret[2].score
          /\ FirstRow(last.ret[2].client) < FirstRow(last.ret[1].client)
          /\ KeyRank(last.ret[2].client) < KeyRank(last.ret[1].client)
       \/ /\ last.ret[1].score = last.ret[2].score
          /\ FirstRow(last.ret[2].client) < FirstRow(last.ret[1].client)

(***************************************************************************)
(* The alert and analytics endpoints and the collections they write:       *)
(* routers/alerts_router.py, routers/analytics_router.py                   *)
(*                                                                         *)
(* A stored document is [dataset_id, doc]; a collection is the list of its *)
(* documents in insertion order.                                           *)
(***************************************************************************)
\* the documents of a list of records of one dataset: [x.dict() for x in ...]
Docs(dataset_id, records) ==
    [i \in 1..Len(records) |-> [dataset_id |-> dataset_id, doc |-> records[i]]]

\* fetch_rico_alerts: filtro_base
filtro_base(dataset_id, stored) ==
    /\ stored.dataset_id = dataset_id
    /\ stored.doc.type \in {"ruptura", "queda_brusca", "outlier_volume"}

\* what a handler answers and the database it leaves; an HTTPException
\* raised inside the try block is caught by `except Exception` and raised
\* again with status 500
Answer(status, detail, ret, database) ==
    [status |-> status, detail |-> detail, ret |-> ret, db |-> database]

\* fetch_rico_alerts; ref is datetime.now() read by InsightsGenerator()
fetch_rico_alerts(database, dataset_id, regenerate, ref, set_order) ==
    LET existentes == SelectSeq(database.alerts, LAMBDA a : filtro_base(dataset_id, a))
        transactions == database.transactions[dataset_id]
        alerts == generate_rico_insights(transactions, ref, set_order)
        remaining == SelectSeq(database.alerts, LAMBDA a : ~filtro_base(dataset_id, a))
    IN  IF ~HasDataset(database, dataset_id)
        THEN Answer(500, "Dataset nao encontrado", <<>>, database)
        ELSE IF ~regenerate /\ existentes # <<>>
        THEN Answer(200, None, existentes, database)
        ELSE IF transactions = <<>>
        THEN Answer(500, "Nenhuma transacao encontrada", <<>>, database)
        ELSE Answer(200, None, Docs(dataset_id, alerts),
                    [database EXCEPT !.alerts = remaining \o Docs(dataset_id, alerts)])

\* insert_many without the delete_many before it
InsertAnalytics(collection, dataset_id, records) ==
    collection \o Docs(dataset_id, records)

\* `if records:` delete_many({"dataset_id": dataset_id}) and insert_many
ReplaceAnalytics(collection, dataset_id, records) ==
    IF records # <<>>
    THEN SelectSeq(collection, LAMBDA a : a.dataset_id # dataset_id) \o Docs(dataset_id, records)
    ELSE collection

\* analyze_customers; ref is datetime.now() read by MetricsCalculator()
analyze_customers(database, dataset_id, ref) ==
    LET transactions == database.transactions[dataset_id]
        customer_analytics == calculate_customer_rfm(transactions, ref)
    IN  IF ~HasDataset(database, dataset_id)
        THEN Answer(500, "Dataset nao encontrado", <<>>, database)
        ELSE IF transactions = <<>>
        THEN Answer(500, "Nenhuma transacao encontrada", <<>>, database)
        ELSE Answer(200, None, Docs(dataset_id, customer_analytics),
                    [database EXCEPT !.analytics_customer =
                        ReplaceAnalytics(@, dataset_id, customer_analytics)])

\* analyze_products
analyze_products(database, dataset_id) ==
    LET transactions == database.transactions[dataset_id]
        product_analytics == calculate_product_analytics(transactions)
    IN  IF ~HasDataset(database, dataset_id)
        THEN Answer(500, "Dataset nao encontrado", <<>>, database)
        ELSE IF transactions = <<>>
        THEN Answer(500, "Nenhuma transacao encontrada", <<>>, database)
        ELSE Answer(200, None, Docs(dataset_id, product_analytics),
                    [database EXCEPT !.analytics_product =
                        ReplaceAnalytics(@, dataset_id, product_analytics)])

\* the transactions of a stored dataset: none, one row of client c1 for SKU
\* A in order o1 on the epoch, or that row and one of order o2 five days
\* later
StoreTxSets ==
    {<<>>, <<BaseTx>>, <<BaseTx, [BaseTx EXCEPT !.order_id = "o2", !.date = 5]>>}

\* the databases after the uploads: every uploaded dataset has a document
\* and its transactions, no analysis has run
InitStore ==
    /\ \E uploaded \in SUBSET DatasetIds :
          \E stored \in [DatasetIds -> StoreTxSets] :
             /\ \A d \in DatasetIds \ uploaded : stored[d] = <<>>
             /\ db = [NoDb EXCEPT !.datasets = {Uploaded(d) : d \in uploaded},
                                  !.transactions = stored]
    /\ txs = <<>>
    /\ now = 0
    /\ engine = [class |-> None]
    /\ last = NoCall
    /\ stat_in = <<>>
    /\ stat_out = NoCall
    /\ reqs = NoReqs

\* the record of a request: the handler, its arguments, the wall clock and
\* the answer
Request(op, dataset_id, regenerate, answer) ==
    [op |-> op, dataset_id |-> dataset_id, regenerate |-> regenerate, called_at |-> now,
     status |-> answer.status, detail |-> answer.detail, ret |-> answer.ret]

\* GET /alerts/rico/{dataset_id}
FetchRicoAlerts ==
    \E dataset_id \in DatasetIds, regenerate \in BOOLEAN, set_order \in SetOrders :
       LET answer == fetch_rico_alerts(db, dataset_id, regenerate, now, set_order)
       IN  /\ Len(answer.db.alerts) <= MaxStored
           /\ db' = answer.db
           /\ last' = Request("fetch_rico_alerts", dataset_id, regenerate, answer)
           /\ UNCHANGED <<txs, now, engine, stat_in, stat_out, reqs>>

\* POST /analyze-customers/{dataset_id}
AnalyzeCustomers ==
    \E dataset_id \in DatasetIds :
       LET answer == analyze_customers(db, dataset_id, now)
       IN  /\ db' = answer.db
           /\ last' = Request("analyze_customers", dataset_id, None, answer)
           /\ UNCHANGED <<txs, now, engine, stat_in, stat_out, reqs>>

\* POST /analyze-products/{dataset_id}
AnalyzeProducts ==
    \E dataset_id \in DatasetIds :
       LET answer == analyze_products(db, dataset_id)
       IN  /\ db' = answer.db
           /\ last' = Request("analyze_products", dataset_id, None, answer)
           /\ UNCHANGED <<txs, now, engine, stat_in, stat_out, reqs>>

NextStore ==
    \/ Tick
    \/ FetchRicoAlerts
    \/ AnalyzeCustomers
    \/ AnalyzeProducts

SpecStore == InitStore /\ [][NextStore]_vars

(***************************************************************************)
(* Properties of the stored alerts and analytics.                          *)
(***************************************************************************)
\* the documents of a dataset in a collection
Stored(collection, dataset_id) == SelectSeq(collection, LAMBDA a : a.dataset_id = dataset_id)

\* C16: after a regeneration the alerts stored for the dataset are exactly
\* the alerts of that generation: none of an earlier generation, none twice.
C16_StoredAlertsAreLastGeneration ==
    (last.op = "fetch_rico_alerts" /\ last.regenerate /\ last.status = 200) =>
       Stored(db.alerts, last.dataset_id) = last.ret

\* an analysis of the given handler has just answered 200 for a dataset
\* whose stored documents are now exactly the records it returned
SnapshotOf(op, collection) ==
    (last.op = op /\ last.status = 200) => Stored(collection, last.dataset_id) = last.ret

ProjectedOffset(c, ref) ==
    LET client_data == ClientRows(c)
        last_order == Max(Range(Column(client_data, "date")))
    IN  FracAdd(_calculate_customer_turnover(client_data),
                Frac(last_order + delay_logistico - ref, 1))

\* the average of the projected offsets over all clients of the dataset
ProjectedMean(ref) ==
    LET clients == Unique(Column(txs, "client"))
        total == FracSum([i \in 1..Len(clients) |-> ProjectedOffset(clients[i], ref)])
    IN  Frac(total.n, total.d * Len(clients))

\* C21: calculate_general_kpis on a non-empty transaction set returns a
\* result with the key ruptura_projetada_media, whose value is the average
\* over all clients of the signed day offset between last_order + (median
\* turnover + logistics delay days) and the reference date.
C21_RupturaProjetadaMedia ==
    (last.op = KPIS /\ txs # <<>>) =>
        /\ "ruptura_projetada_media" \in DOMAIN last.ret
        /\ last.ret["ruptura_projetada_media"] = ProjectedMean(last.reference_date)

(***************************************************************************)
(* Report builder: services/report_builder.py                              *)
(***************************************************************************)

\* the sheet names of the report
REPORT_SHEETS ==
    [clients |-> "Identificação do Cliente",
     history |-> "Histórico Comercial",
     mix |-> "Inteligência de Mix",
     relationship |-> "Relacional e Atendimento",
     behavior |-> "Inteligência Comportamental"]

\* the attributes MetricsCalculator.__init__ sets on the instance
MetricsCalculatorAttributes == {"reference_date"}

\* round(x, 2) of a non-negative fraction
Round2(x) == Frac((2 * 100 * x.n + x.d) \div (2 * x.d), 100)

\* dict.get(key, default)
Get(dict, key, default) == IF key \in DOMAIN dict THEN dict[key] ELSE default

\* historico_df: one row per calendar month that has a transaction
historico_df(tx_df) ==
    LET periods == SortedSeq({MonthOf(tx_df[i].date) : i \in 1..Len(tx_df)})
        row(p) ==
            LET rows == Rows(tx_df, LAMBDA t : MonthOf(t.date) = p)
                receita_total == SumSeq(Column(rows, "subtotal"))
                pedidos == NUnique(Column(rows, "order_id"))
            IN  [periodo |-> p,
                 receita_total |-> receita_total,
                 pedidos |-> pedidos,
                 clientes |-> NUnique(Column(rows, "client")),
                 ticket_medio |-> IF pedidos # 0 THEN Frac(receita_total, pedidos) ELSE Zero]
    IN  [i \in 1..Len(periods) |-> row(periods[i])]

\* the five indicator rows every report starts its behaviour sheet with
behavior_rows(general_kpis) ==
    <<[indicador |-> "Total de clientes", valor |-> Get(general_kpis, "total_customers", Zero)],
      [indicador |-> "Total de SKUs", valor |-> Get(general_kpis, "total_products", Zero)],
      [indicador |-> "Total de pedidos", valor |-> Get(general_kpis, "total_orders", Zero)],
      [indicador |-> "Ticket médio", valor |-> Round2(Get(general_kpis, "avg_ticket", Zero))],
      [indicador |-> "Ruptura projetada média (dias)",
       valor |-> Round2(Get(general_kpis, "ruptura_projetada_media", Zero))]>>

\* build_report_dataframes: an empty list raises ValueError; with customer
\* records the relationship sheet reads calc.delay_logistico, which raises
\* AttributeError when the calculator has no such attribute; without
\* customer records the clients and relationship sheets have no rows and
\* the behaviour sheet no tier rows
build_report_dataframes(transactions, ref) ==
    IF transactions = <<>> THEN Raise("ValueError")
    ELSE LET customer_analytics == calculate_customer_rfm(transactions, ref)
             product_analytics == calculate_product_analytics(transactions)
             general_kpis == calculate_general_kpis(transactions, ref)
             clientes_df == customer_analytics
             mix_df == product_analytics
         IN  IF clientes_df # <<>> /\ "delay_logistico" \notin MetricsCalculatorAttributes
             THEN Raise("AttributeError")
             ELSE (REPORT_SHEETS.clients :> clientes_df)
                  @@ (REPORT_SHEETS.history :> historico_df(transactions))
                  @@ (REPORT_SHEETS.mix :> mix_df)
                  @@ (REPORT_SHEETS.relationship :> <<>>)
                  @@ (REPORT_SHEETS.behavior :> behavior_rows(general_kpis))

\* build_report_dataframes(transactions, dataset_id, calculator): without a
\* calculator a MetricsCalculator is constructed at the call
BuildReportDataframes ==
    /\ LET ref == IF engine.class = "MetricsCalculator" THEN engine.reference_date ELSE now
       IN  last' = [op |-> "build_report_dataframes", reference_date |-> ref,
                    called_at |-> now, ret |-> build_report_dataframes(txs, ref)]
    /\ UNCHANGED <<txs, now, engine, stat_in, stat_out, db, reqs>>

NextReport ==
    \/ Tick
    \/ NewMetricsCalculator
    \/ BuildReportDataframes

SpecReport == Init /\ [][NextReport]_vars

(***************************************************************************)
(* Claims about the report                                                 *)
(***************************************************************************)

\* the sheet names of REPORT_SHEETS
SheetNames == {REPORT_SHEETS[k] : k \in DOMAIN REPORT_SHEETS}

\* C22: build_report_dataframes on a non-empty transaction set returns
\* exactly the five tables named in REPORT_SHEETS, and each table has at
\* least one row.
C22_FiveNonEmptyTables ==
    (last.op = "build_report_dataframes" /\ txs # <<>>) =>
        /\ DOMAIN last.ret = SheetNames
        /\ \A name \in SheetNames : last.ret[name] # <<>>

(***************************************************************************)
(* Validator: services/validator.py                                        *)
(* A field value is a number Num(fraction), the float NaN, None, a text    *)
(* that is no number, a blank string, or absent from the dictionary.       *)
(***************************************************************************)
NaN == [kind |-> "nan", v |-> Zero]
Absent == [kind |-> "absent", v |-> Zero]
NoneValue == [kind |-> "None", v |-> Zero]
Text == [kind |-> "str", v |-> Zero]
Blank == [kind |-> "blank", v |-> Zero]

\* the most records of one validated batch
MaxRecords == 2

\* float(value): a number or NaN converts, a string that is no number raises
\* ValueError and None raises TypeError
ToFloat(value) ==
    IF value.kind \in {"num", "nan"} THEN value
    ELSE IF value.kind \in {"str", "blank"} THEN Raise("ValueError") ELSE Raise("TypeError")

\* int(value): a number is truncated towards zero, NaN and a string that is
\* no number raise ValueError and None raises TypeError
ToInt(value) ==
    IF value.kind = "num"
    THEN LET x == value.v
         IN  Num(Frac(IF x.n >= 0 THEN x.n \div x.d ELSE -((-x.n) \div x.d), 1))
    ELSE IF value.kind \in {"nan", "str", "blank"} THEN Raise("ValueError")
    ELSE Raise("TypeError")

IsRaise(r) == "raised" \in DOMAIN r

\* a <= 0 on floats: every comparison with NaN is False
LeqZero(a) == a.kind = "num" /\ a.v.n <= 0

\* a * b on floats
Times(a, b) == IF a.kind = "nan" \/ b.kind = "nan" THEN NaN ELSE Num(FracMul(a.v, b.v))

\* abs(a - b) > 0.01 on floats
ApartMoreThanCent(a, b) ==
    /\ a.kind = "num" /\ b.kind = "num"
    /\ LET diff == Frac(a.v.n * b.v.d - b.v.n * a.v.d, a.v.d * b.v.d)
       IN  FracLt(Frac(1, 100), Frac(Abs(diff.n), diff.d))

required_fields == <<"product", "date", "order_id", "client", "price", "qty">>

\* DataValidator._validate_transaction; product and order_id are texts,
\* client is a text, a blank string or None, and date is a datetime (a
\* number) or a text
_validate_transaction(transaction) ==
    IF \E i \in 1..Len(required_fields) :
          transaction[required_fields[i]].kind \in {"absent", "None"}
    THEN Raise("ValueError")
    ELSE IF transaction.date.kind # "num" THEN Raise("ValueError")
    ELSE IF transaction.client.kind = "blank" THEN Raise("ValueError")
    ELSE LET price == ToFloat(transaction.price)
             qty == ToInt(transaction.qty)
         IN  IF IsRaise(price) \/ LeqZero(price) THEN Raise("ValueError")
             ELSE IF IsRaise(qty) \/ LeqZero(qty) THEN Raise("ValueError")
             ELSE LET expected_subtotal == Times(price, qty)
                      given == IF transaction.subtotal.kind = "absent"
                               THEN expected_subtotal
                               ELSE LET f == ToFloat(transaction.subtotal)
                                    IN  IF IsRaise(f) THEN expected_subtotal ELSE f
                      subtotal == IF ApartMoreThanCent(given, expected_subtotal)
                                  THEN expected_subtotal ELSE given
                  IN  [product |-> transaction.product, date |-> transaction.date,
                       order_id |-> transaction.order_id, client |-> transaction.client,
                       price |-> price, qty |-> qty, subtotal |-> subtotal]

\* DataValidator.validate_transactions: the validated records and
\* self.errors, an error being the index of the record it rejects
RECURSIVE ValidateFrom(_, _)
ValidateFrom(transactions, i) ==
    IF i > Len(transactions) THEN [validated |-> <<>>, errors |-> <<>>]
    ELSE LET validated_transaction == _validate_transaction(transactions[i])
             rest == ValidateFrom(transactions, i + 1)
         IN  IF IsRaise(validated_transaction)
             THEN [rest EXCEPT !.errors = <<i>> \o @]
             ELSE [rest EXCEPT !.validated = <<validated_transaction>> \o @]

validate_transactions(transactions) == ValidateFrom(transactions, 1)

\* the raw records of an extraction: every combination of field values alone,
\* and batches over the records with a usable client and date
Prices == {Num(Frac(1, 1)), Num(Frac(3, 2)), Num(Zero), Num(Frac(-1, 1)), NaN, Text, NoneValue}
Qtys == {Num(Frac(1, 1)), Num(Frac(2, 1)), Num(Frac(1, 2)), Num(Zero), Num(Frac(-1, 1)), NaN, NoneValue}
RawSubtotals ==
    {Absent, NoneValue, Text, NaN,
     Num(Frac(1, 1)), Num(Frac(101, 100)), Num(Frac(102, 100)), Num(Frac(3, 1))}

RawRecords ==
    {[product |-> Text, order_id |-> Text, date |-> d, client |-> c,
      price |-> p, qty |-> q, subtotal |-> s] :
        d \in {Num(Zero), Text}, c \in {Text, Blank, NoneValue},
        p \in Prices, q \in Qtys, s \in RawSubtotals}

BatchRecords ==
    {r \in RawRecords :
        /\ r.date = Num(Zero) /\ r.client = Text
        /\ r.price \in {Num(Frac(1, 1)), Num(Zero), NaN}
        /\ r.qty \in {Num(Frac(1, 1)), Num(Zero)}
        /\ r.subtotal \in {Absent, Num(Frac(1, 1)), Num(Frac(3, 1))}}

InitValidator ==
    /\ stat_in \in SeqsUpTo(RawRecords, 1) \cup SeqsUpTo(BatchRecords, MaxRecords)
    /\ stat_out = NoCall
    /\ txs = <<>>
    /\ now = 0
    /\ engine = [class |-> None]
    /\ last = NoCall
    /\ db = NoDb
    /\ reqs = NoReqs

ValidateTransactions ==
    /\ stat_out' = StatCall("validate_transactions", None, validate_transactions(stat_in))
    /\ UNCHANGED <<txs, now, engine, last, stat_in, db, reqs>>

NextValidator == ValidateTransactions

SpecValidator == InitValidator /\ [][NextValidator]_vars

(***************************************************************************)
(* Claims about the validator                                              *)
(***************************************************************************)

\* a validated record is consistent: qty > 0, price > 0 and the subtotal is
\* within 0.01 of price * qty
Consistent(t) ==
    /\ t.qty.kind = "num" /\ t.qty.v.n > 0
    /\ t.price.kind = "num" /\ t.price.v.n > 0
    /\ t.subtotal.kind = "num"
    /\ ~ApartMoreThanCent(t.subtotal, Times(t.price, t.qty))

\* C23: every transaction returned by validate_transactions has qty > 0,
\* price > 0 and a subtotal within 0.01 of price*qty, and the number of
\* returned records plus the number of recorded errors is the number of
\* input records.
C23_ValidatedAreConsistent ==
    stat_out.op = "validate_transactions" =>
        /\ \A i \in 1..Len(stat_out.ret.validated) : Consistent(stat_out.ret.validated[i])
        /\ Len(stat_out.ret.validated) + Len(stat_out.ret.errors) = Len(stat_in)

(***************************************************************************)
(* Concurrent regeneration.  The database is a server shared by every      *)
(* process that serves the application; a handler is a sequence of         *)
(* database operations, each atomic, and nothing orders the operations of  *)
(* two requests.  The dataset document and the transactions are not        *)
(* written by these handlers, so reading them and computing is one step.   *)
(***************************************************************************)

\* the stored datasets of the race: d1 is uploaded with transactions
InitRace ==
    /\ \E stored \in StoreTxSets \ {<<>>} :
          db = [NoDb EXCEPT !.datasets = {Uploaded("d1")}, !.transactions["d1"] = stored]
    /\ txs = <<>>
    /\ now = 0
    /\ engine = [class |-> None]
    /\ last = NoCall
    /\ stat_in = <<>>
    /\ stat_out = NoCall
    /\ reqs = NoReqs

\* a request that has answered
Done(op, dataset_id, status, out) ==
    [pc |-> "done", op |-> op, dataset_id |-> dataset_id, status |-> status, out |-> out]

\* a request between two database operations
Running(pc, op, dataset_id, out) ==
    [pc |-> pc, op |-> op, dataset_id |-> dataset_id, status |-> None, out |-> out]

\* fetch_rico_alerts(regenerate=true) and analyze_customers up to the
\* computation: find_one on datasets, find on transactions, the engine
BeginRegenerate(r) ==
    /\ reqs[r].pc = "idle"
    /\ \E op \in {"fetch_rico_alerts", "analyze_customers"}, dataset_id \in DatasetIds,
          set_order \in SetOrders :
          LET transactions == db.transactions[dataset_id]
              out == IF op = "fetch_rico_alerts"
                     THEN Docs(dataset_id, generate_rico_insights(transactions, now, set_order))
                     ELSE Docs(dataset_id, calculate_customer_rfm(transactions, now))
          IN  reqs' = [reqs EXCEPT ![r] =
                          IF ~HasDataset(db, dataset_id) \/ transactions = <<>>
                          THEN Done(op, dataset_id, 500, <<>>)
                          ELSE Running("computed", op, dataset_id, out)]
    /\ UNCHANGED <<txs, now, engine, last, stat_in, stat_out, db>>

\* db.alerts.delete_many(filtro_base), or `if customer_analytics:`
\* db.analytics_customer.delete_many({"dataset_id": dataset_id})
DeleteMany(r) ==
    /\ reqs[r].pc = "computed"
    /\ LET q == reqs[r]
       IN  IF q.op = "fetch_rico_alerts"
           THEN /\ db' = [db EXCEPT !.alerts =
                             SelectSeq(@, LAMBDA a : ~filtro_base(q.dataset_id, a))]
                /\ reqs' = [reqs EXCEPT ![r] =
                               IF q.out = <<>> THEN Done(q.op, q.dataset_id, 200, q.out)
                               ELSE Running("deleted", q.op, q.dataset_id, q.out)]
           ELSE IF q.out = <<>>
           THEN /\ db' = db
                /\ reqs' = [reqs EXCEPT ![r] = Done(q.op, q.dataset_id, 200, q.out)]
           ELSE /\ db' = [db EXCEPT !.analytics_customer =
                             SelectSeq(@, LAMBDA a : a.dataset_id # q.dataset_id)]
                /\ reqs' = [reqs EXCEPT ![r] = Running("deleted", q.op, q.dataset_id, q.out)]
    /\ UNCHANGED <<txs, now, engine, last, stat_in, stat_out>>

\* insert_many of the documents computed, and the answer
InsertMany(r) ==
    /\ reqs[r].pc = "deleted"
    /\ LET q == reqs[r]
       IN  /\ db' = IF q.op = "fetch_rico_alerts"
                    THEN [db EXCEPT !.alerts = @ \o q.out]
                    ELSE [db EXCEPT !.analytics_customer = @ \o q.out]
           /\ reqs' = [reqs EXCEPT ![r] = Done(q.op, q.dataset_id, 200, q.out)]
    /\ UNCHANGED <<txs, now, engine, last, stat_in, stat_out>>

NextRace ==
    \/ Tick
    \/ \E r \in Requests : BeginRegenerate(r)
    \/ \E r \in Requests : DeleteMany(r)
    \/ \E r \in Requests : InsertMany(r)

SpecRace == InitRace /\ [][NextRace]_vars

(***************************************************************************)
(* Claims about concurrent regeneration                                    *)
(***************************************************************************)

\* both requests ran the given handler for one dataset and have answered 200
BothDone(op, dataset_id) ==
    \A r \in Requests :
       /\ reqs[r].pc = "done" /\ reqs[r].status = 200
       /\ reqs[r].op = op /\ reqs[r].dataset_id = dataset_id

\* C24: after two concurrent fetch_rico_alerts(regenerate=true) calls, or two
\* analyze_customers calls, on one dataset, in every interleaving, the store
\* holds the output of exactly one of the two runs, never the union of both
\* and never an empty set.
C24_RegenerateSerialized ==
    \A d \in DatasetIds :
       /\ BothDone("fetch_rico_alerts", d) =>
             Stored(db.alerts, d) \in {reqs[r].out : r \in Requests}
       /\ BothDone("analyze_customers", d) =>
             Stored(db.analytics_customer, d) \in {reqs[r].out : r \in Requests}

(***************************************************************************)
(* Insights over datasets with malformed rows                              *)
(***************************************************************************)

\* up to MaxTx rows of SKU A that vary in client and date and in whether the
\* subtotal is a number
FaultTxSets ==
    SeqsUpTo({[subtotal_is_text |-> b] @@ [BaseTx EXCEPT !.client = c, !.date = d] :
                 c \in Clients, d \in {0, 5}, b \in BOOLEAN}, MaxTx)

InitFaults == InitOn(FaultTxSets)

NextFaults ==
    \/ Tick
    \/ NewInsightsGenerator
    \/ GenerateRicoInsights

SpecFaults == InitFaults /\ [][NextFaults]_vars

\* the alerts of a sequence are among the alerts returned
Returned(alerts) == Range(alerts) \subseteq Range(last.ret)

\* C25: within one alert rule a malformed group is skipped alone: the
\* alerts the rule produces for every other group are still returned.
C25_BadGroupSkippedAlone ==
    last.op = INSIGHTS =>
        /\ \A c \in Range(Column(txs, "client")) :
              ~HasNonNumeric(ClientRows(c)) =>
                  Returned(InatividadeGroup(txs, c, last.reference_date))
        /\ \A c \in Range(Column(txs, "client")), sku \in Range(Column(txs, "sku")) :
              ~HasNonNumeric(Rows(txs, LAMBDA t : t.client = c /\ t.sku = sku)) =>
                  Returned(RupturaGroup(txs, c, sku, last.reference_date))

\* C26: the alert rules are evaluated independently: when one rule of
\* generate_rico_insights fails, the alerts produced by every other rule
\* are still returned in the result.
C26_RulesIndependent ==
    last.op = INSIGHTS =>
        /\ Returned(_generate_ruptura_alerts(txs, last.reference_date))
        /\ Returned(_generate_inatividade_alerts(txs, last.reference_date))
        /\ Returned(_generate_crescimento_alerts(txs, last.reference_date))
        /\ \E set_order \in SetOrders : Returned(_generate_oportunidade_alerts(txs, set_order))

\* the inactivity rule has failed and the stock-out alerts are returned
C26_Witness ==
    /\ last.op = INSIGHTS
    /\ InatividadeFails(txs, last.reference_date)
    /\ last.ret # <<>>
    /\ last.ret = _generate_ruptura_alerts(txs, last.reference_date)

(***************************************************************************)
(* Upload: routers/dataset_router.py upload_batch.  The handler is         *)
(* suspended at `await file.read()`, so the requests of one event loop     *)
(* interleave file by file; what runs between two suspensions is one step. *)
(***************************************************************************)

\* the most files of one upload
MaxFiles == 2

\* the Idempotency-Key header of a request; without the header the key is
\* drawn at random and equals no other key
IdempotencyKeys == {"k1", None}

\* the contents of the uploaded .xlsx files
Contents == {"f1", "f2"}

\* the files a request can carry: an .xlsx file with some content, or a file
\* with another extension
UploadFiles == {[xlsx |-> TRUE, content |-> c] : c \in Contents}
                   \cup {[xlsx |-> FALSE, content |-> "f1"]}

FileLists == UNION {[1..k -> UploadFiles] : k \in 1..MaxFiles}

\* the normalized transactions of a file: one order of client c1 for SKU A
normalize_transactions(content) ==
    IF content = "f1" THEN <<BaseTx>> ELSE <<[BaseTx EXCEPT !.order_id = "o2"]>>

\* uuid4(): an identifier no document, no transaction and no request holds
FreshIds ==
    {d \in DatasetIds :
        /\ ~HasDataset(db, d)
        /\ db.transactions[d] = <<>>
        /\ \A r \in Requests : reqs[r].pc = "idle" \/ reqs[r].uuid # d}

\* an upload in flight: the next file is files[i], rows counts the inserted
\* transactions
Uploading(pc, idem, files, i, uuid, rows) ==
    [pc |-> pc, op |-> "upload_batch", idem |-> idem, files |-> files, i |-> i,
     uuid |-> uuid, rows |-> rows, dataset_id |-> None, status |-> None, detail |-> None]

\* an upload that has answered: uuid is the identifier it drew, dataset_id
\* the identifier it answers with
Answered(q, dataset_id, status, detail) ==
    [q EXCEPT !.pc = "done", !.dataset_id = dataset_id, !.status = status, !.detail = detail]

\* lines 54-66: the idempotency check and the choice of the identifier
UploadBegin(r) ==
    /\ reqs[r].pc = "idle"
    /\ \E idem \in IdempotencyKeys, files \in FileLists :
          LET already == SelectSeq(db.requests,
                                   LAMBDA q : idem # None /\ q.idempotency_key = idem)
          IN  IF already # <<>>
              THEN reqs' = [reqs EXCEPT ![r] =
                               Answered(Uploading("begin", idem, files, 1, None, 0),
                                        already[1].dataset_id, 200, "DUPLICATE_OK")]
              ELSE \E dataset_id \in FreshIds :
                      reqs' = [reqs EXCEPT ![r] =
                                  Uploading("files", idem, files, 1, dataset_id, 0)]
    /\ UNCHANGED <<txs, now, engine, last, stat_in, stat_out, db>>

\* insert_many(tx_docs, ordered=False) under the unique index on
\* (dataset_id, order_id, sku, date): the rows that are not stored yet
NewRows(stored, tx_docs) ==
    SelectSeq(tx_docs, LAMBDA t : \A i \in 1..Len(stored) :
                 <<stored[i].order_id, stored[i].sku, stored[i].date>>
                     # <<t.order_id, t.sku, t.date>>)

\* the except block of upload_batch: update_one without upsert marks the
\* document of the dataset, if there is one, as FAILED
MarkFailed(datasets, dataset_id) ==
    {IF doc._id = dataset_id THEN [doc EXCEPT !.status = "FAILED"] ELSE doc : doc \in datasets}

\* lines 79-160, one file: a file that is no .xlsx raises HTTPException(400)
\* inside the try block, which the except block answers with 500; a file
\* whose hash is the hash of a stored dataset is skipped; the transactions
\* of any other file are inserted under the identifier drawn
UploadFile(r) ==
    /\ reqs[r].pc = "files"
    /\ LET q == reqs[r]
           file == q.files[q.i]
           skip == \E doc \in db.datasets : doc.hash = FileHash(file.content)
           inserted == NewRows(db.transactions[q.uuid], normalize_transactions(file.content))
       IN  IF ~file.xlsx
           THEN /\ db' = [db EXCEPT !.datasets = MarkFailed(@, q.uuid)]
                /\ reqs' = [reqs EXCEPT ![r] = Answered(q, None, 500, "nao e um .xlsx valido")]
           ELSE /\ db' = IF skip THEN db
                         ELSE [db EXCEPT !.transactions[q.uuid] = @ \o inserted]
                /\ reqs' = [reqs EXCEPT ![r] =
                               [q EXCEPT !.i = @ + 1,
                                         !.rows = IF skip THEN @ ELSE @ + Len(inserted),
                                         !.pc = IF q.i = Len(q.files) THEN "save" ELSE "files"]]
    /\ UNCHANGED <<txs, now, engine, last, stat_in, stat_out>>

\* lines 162-220: the dataset document is upserted under the identifier
\* drawn; when the unique index on hash rejects it the identifier of the
\* stored dataset with that hash is used instead; that dataset is marked
\* READY and the idempotency key recorded
UploadSave(r) ==
    /\ reqs[r].pc = "save"
    /\ LET q == reqs[r]
           dataset_hash == DatasetHash([k \in 1..Len(q.files) |-> q.files[k].content])
           same_hash == {doc \in db.datasets : doc.hash = dataset_hash /\ doc._id # q.uuid}
           dataset_id == IF same_hash # {} THEN (CHOOSE doc \in same_hash : TRUE)._id
                         ELSE q.uuid
           others == {doc \in db.datasets : doc._id # dataset_id}
       IN  /\ db' = [db EXCEPT
                        !.datasets = others \cup {DatasetDoc(dataset_id, dataset_hash, "READY")},
                        !.requests = Append(@, [idempotency_key |-> q.idem,
                                                dataset_id |-> dataset_id])]
           /\ reqs' = [reqs EXCEPT ![r] = Answered(q, dataset_id, 200, "READY")]
    /\ UNCHANGED <<txs, now, engine, last, stat_in, stat_out>>

InitUpload ==
    /\ db = NoDb
    /\ reqs = NoReqs
    /\ txs = <<>>
    /\ now = 0
    /\ engine = [class |-> None]
    /\ last = NoCall
    /\ stat_in = <<>>
    /\ stat_out = NoCall

NextUpload ==
    \/ \E r \in Requests : UploadBegin(r)
    \/ \E r \in Requests : UploadFile(r)
    \/ \E r \in Requests : UploadSave(r)
    \/ FetchRicoAlerts
    \/ AnalyzeCustomers

SpecUpload == InitUpload /\ [][NextUpload]_vars

(***************************************************************************)
(* Claims about the upload                                                 *)
(***************************************************************************)

\* no request is between two of its steps
Quiescent == \A r \in Requests : reqs[r].pc \in {"idle", "done"}

\* the request has answered an upload
UploadDone(r) == reqs[r].pc = "done" /\ reqs[r].op = "upload_batch"

\* C27: all upload_batch requests that carry the same Idempotency-Key refer
\* to one dataset_id, and at most one of them inserts transactions, in
\* every sequence and interleaving of the requests.
C27_IdempotentPerKey ==
    \A r1, r2 \in Requests :
       (/\ r1 # r2 /\ UploadDone(r1) /\ UploadDone(r2)
        /\ reqs[r1].idem # None /\ reqs[r1].idem = reqs[r2].idem) =>
           /\ (reqs[r1].status = 200 /\ reqs[r2].status = 200) =>
                 reqs[r1].dataset_id = reqs[r2].dataset_id
           /\ ~(reqs[r1].rows > 0 /\ reqs[r2].rows > 0)

\* C28: after any sequence of upload_batch calls every stored transaction
\* has a dataset_id for which a dataset document exists, also when the
\* upload was redirected to the dataset that has its hash.
C28_TransactionsHaveDataset ==
    Quiescent => \A d \in DatasetIds : db.transactions[d] # <<>> => HasDataset(db, d)

\* C29: when upload_batch aborts with an error after it has chosen its
\* dataset_id the datasets collection holds a document of that dataset_id
\* with status FAILED, and no dataset is left without the status READY or
\* FAILED.
C29_FailureIsRecorded ==
    /\ \A r \in Requests :
          (UploadDone(r) /\ reqs[r].status # 200 /\ reqs[r].uuid # None) =>
              \E doc \in db.datasets : doc._id = reqs[r].uuid /\ doc.status = "FAILED"
    /\ Quiescent => \A doc \in db.datasets : doc.status \in {"READY", "FAILED"}

\* C30: a request for a dataset_id that has no dataset document, or for a
\* dataset that has no transactions, is answered with 404, and an upload of
\* a file that is no .xlsx with 400, never with 500.
C30_ClientErrorsKeepStatus ==
    /\ (/\ last.op \in {"fetch_rico_alerts", "analyze_customers"}
        /\ \/ ~HasDataset(db, last.dataset_id)
           \/ last.op = "analyze_customers" /\ db.transactions[last.dataset_id] = <<>>) =>
           last.status = 404
    /\ \A r \in Requests :
          (/\ UploadDone(r) /\ reqs[r].uuid # None
           /\ \E k \in 1..Len(reqs[r].files) : ~reqs[r].files[k].xlsx) =>
              reqs[r].status = 400

====
